---- MODULE Spec2Model ----
(***************************************************************************)
(* Model of the search orchestration of youtube-search-streamlit:          *)
(*   YouTubeSearchService.search / _process_results / _should_include_video*)
(*   (src/src/core/search_service.py), the YouTubeAPIClient operations it  *)
(*   calls (src/src/core/youtube_api.py) and the formatters of             *)
(*   YouTubeDataFormatter (src/src/core/data_processor.py).                *)
(* Spec: one behaviour is one call of search(search_params) on one client; *)
(* every remote round-trip is one step, and the remote service answers     *)
(* each call either by raising or with items taken from a small catalogue. *)
(* ClientSpec: the operations of YouTubeAPIClient called one at a time.    *)
(* FormatterSpec: the functions of YouTubeDataFormatter and the kids       *)
(* filters called on raw hits, duration tokens, counts and result lists.   *)
(* ConcurrentSpec: set_api_key statement by statement while another thread *)
(* uses the client.                                                        *)
(* AppSpec: app.main (src/app.py), one step per run of one session.        *)
(***************************************************************************)
EXTENDS Naturals, Sequences, FiniteSets, TLC

VARIABLES
    api_key,                \* YouTubeAPIClient.api_key
    youtube,                \* YouTubeAPIClient.youtube (None or the service)
    search_params,          \* the caller's search_params mapping
    pc,                     \* position inside search
    outcome,                \* "none" | "returned" | "raised"
    results,                \* search: results
    type_idx,               \* search: position of the content_type loop
    cat_idx,                \* search: position of the category_id loop
    all_formatted_results,  \* search: all_formatted_results
    type_params,            \* search: type_params handed to search_content
    raw_results,            \* _process_results: raw_results
    formatted_results,      \* _process_results: formatted_results
    item_idx,               \* _process_results: position of the item loop
    calls,                  \* the remote calls issued so far, in order
    environ,                \* the API key _get_api_key finds (or None)
    last_op,                \* the last operation of the client or of the
                            \* formatter called directly, its outcome and
                            \* the remote calls it issued
    session_state,          \* st.session_state of the browser session
    page                    \* what the last run of app.main rendered, with
                            \* the widget values it ran on

vars == <<api_key, youtube, search_params, pc, outcome, results, type_idx,
          cat_idx, all_formatted_results, type_params, raw_results,
          formatted_results, item_idx, calls, environ, last_op,
          session_state, page>>

---------------------------------------------------------------------------
(* Bounds of the model *)

\* largest number of search_content calls one request fans out to
MaxFanOut == 2
\* largest max_results a request asks for
MaxResults == 2

---------------------------------------------------------------------------
(* Python values *)

None == "None"
EmptyDict == <<>>

\* truth value of a string-or-None
Truthy(s) == s # None /\ s # ""

\* dict.get(k, default)
Get(d, k, default) == IF k \in DOMAIN d THEN d[k] ELSE default

\* a value that is None, a str or a list (category_id takes all three)
PyNone == [t |-> "None"]
PyStr(s) == [t |-> "str", v |-> s]
PyList(l) == [t |-> "list", v |-> l]

PyInt(n) == [t |-> "int", v |-> n]

PyBool(b) == [t |-> "bool", v |-> b]

Min(a, b) == IF a <= b THEN a ELSE b

Take(seq, n) == SubSeq(seq, 1, Min(n, Len(seq)))

RECURSIVE Concat(_)
Concat(ss) == IF ss = <<>> THEN <<>> ELSE Head(ss) \o Concat(Tail(ss))

Range(s) == {s[i] : i \in 1..Len(s)}

---------------------------------------------------------------------------
(* The remote service: what search.list, videos.list, channels.list and    *)
(* playlists.list hold.  A raw hit is the id block and the snippet block   *)
(* of one search item; a detail record is one item of a *.list answer.     *)

VideoOrder == <<"v1", "v2", "v3">>
ChannelOrder == <<"ch1", "ch2">>
PlaylistOrder == <<"pl1", "pl2">>

TopicMusic == "/m/04rlf"
TopicSports == "/m/06ntj"

\* search.list items of type video: v1 and v2 are uploads of one channel
VideoHits ==
    [v1 |-> [id |-> [videoId |-> "v1"],
             snippet |-> [title |-> "A", channelId |-> "c1"]],
     v2 |-> [id |-> [videoId |-> "v2"],
             snippet |-> [title |-> "B", channelId |-> "c1"]],
     v3 |-> [id |-> [videoId |-> "v3"],
             snippet |-> [title |-> "C", channelId |-> "c2"]]]

\* videos.list items; v3 has none (a lookup of it is silently omitted)
VideoDetails ==
    [v1 |-> [id |-> "v1",
             snippet |-> [categoryId |-> "10"],
             status |-> [madeForKids |-> TRUE, privacyStatus |-> "public"],
             topicDetails |-> [relevantTopicIds |-> <<TopicMusic>>]],
     v2 |-> [id |-> "v2",
             snippet |-> [categoryId |-> "20"],
             status |-> [madeForKids |-> FALSE, privacyStatus |-> "public"],
             topicDetails |-> [relevantTopicIds |-> <<TopicSports>>]]]

ChannelHits ==
    [ch1 |-> [id |-> [channelId |-> "ch1"], snippet |-> [title |-> "One"]],
     ch2 |-> [id |-> [channelId |-> "ch2"], snippet |-> [title |-> "Two"]]]

\* channels.list items; ch2 has none
ChannelDetails ==
    [ch1 |-> [id |-> "ch1",
              brandingSettings |-> [channel |-> [keywords |-> "music"]]]]

PlaylistHits ==
    [pl1 |-> [id |-> [playlistId |-> "pl1"],
              snippet |-> [title |-> "P", channelId |-> "c1"]],
     pl2 |-> [id |-> [playlistId |-> "pl2"],
              snippet |-> [title |-> "Q", channelId |-> "c1"]]]

\* playlists.list items; pl2 has none
PlaylistDetails ==
    [pl1 |-> [id |-> "pl1", status |-> [privacyStatus |-> "public"]]]

HitOrder(content_type) ==
    IF content_type = "video" THEN VideoOrder
    ELSE IF content_type = "channel" THEN ChannelOrder ELSE PlaylistOrder

Hits(content_type) ==
    IF content_type = "video" THEN VideoHits
    ELSE IF content_type = "channel" THEN ChannelHits ELSE PlaylistHits

DetailStore(content_type) ==
    IF content_type = "video" THEN VideoDetails
    ELSE IF content_type = "channel" THEN ChannelDetails ELSE PlaylistDetails

IdKey(content_type) ==
    IF content_type = "video" THEN "videoId"
    ELSE IF content_type = "channel" THEN "channelId" ELSE "playlistId"

\* the answers search.list can give to one call: at most maxResults items of
\* the requested type, in relevance order, no entity twice
SearchAnswers(content_type, max_results) ==
    {SelectSeq(HitOrder(content_type), LAMBDA e : e \in S) :
        S \in {T \in SUBSET Range(HitOrder(content_type)) :
                  Cardinality(T) <= max_results}}

ItemsOf(content_type, ids) ==
    [i \in 1..Len(ids) |-> Hits(content_type)[ids[i]]]

\* the answer of a *.list detail call for ids: the records that exist
DetailAnswer(content_type, ids) ==
    LET found == SelectSeq(ids, LAMBDA e : e \in DOMAIN DetailStore(content_type))
    IN  [i \in 1..Len(found) |-> DetailStore(content_type)[found[i]]]


---------------------------------------------------------------------------
(* YouTubeDataFormatter *)

\* the attributes class YouTubeDataFormatter has; _get_category_name,
\* _format_topic_categories and _format_relevant_topic_ids are defined on
\* FilterManager, so looking them up on YouTubeDataFormatter raises
FormatterAttrs ==
    {"format_video_info", "format_channel_info", "format_playlist_info",
     "_parse_duration", "format_count", "format_published_date"}

HasDetails(details) == DOMAIN details # {}

\* FilterManager._get_category_name, on the category ids the catalogue uses
_get_category_name(category_id) ==
    IF category_id = "10" THEN "Music"
    ELSE IF category_id = "20" THEN "Gaming"
    ELSE "Category " \o category_id

\* format_video_info raises: the snippet carries a categoryId and the
\* category name lookup (line 43) is outside any try
format_video_info_raises(item) ==
    /\ Truthy(Get(Get(item, "snippet", EmptyDict), "categoryId", ""))
    /\ "_get_category_name" \notin FormatterAttrs

\* a str whose characters matter is the sequence of them
DigitChars == <<"0", "1", "2", "3", "4", "5", "6", "7", "8", "9">>

IsDigit(c) == \E d \in 1..Len(DigitChars) : DigitChars[d] = c

DigitValue(c) == (CHOOSE d \in 1..Len(DigitChars) : DigitChars[d] = c) - 1

\* int(s) of a str of decimal digits
RECURSIVE int(_)
int(s) ==
    IF Len(s) = 1 THEN DigitValue(s[1])
    ELSE 10 * int(SubSeq(s, 1, Len(s) - 1)) + DigitValue(s[Len(s)])

\* f"{n:02d}"
Format02d(n) == IF n < 10 THEN "0" \o ToString(n) ELSE ToString(n)

\* line 212: duration_string.replace('PT', '')
RECURSIVE RemovePT(_)
RemovePT(s) ==
    IF s = <<>> THEN <<>>
    ELSE IF Len(s) >= 2 /\ s[1] = "P" /\ s[2] = "T"
    THEN RemovePT(SubSeq(s, 3, Len(s)))
    ELSE <<s[1]>> \o RemovePT(Tail(s))

\* where re.search(r'(\d+)U', s) can match: a digit, digits alone after it
\* up to the unit letter U
MatchStarts(s, unit) ==
    {i \in 1..Len(s) :
        /\ IsDigit(s[i])
        /\ \E j \in i..(Len(s) - 1) :
              /\ \A k \in i..j : IsDigit(s[k])
              /\ s[j + 1] = unit}

\* lines 220-235: the component of one unit letter, 0 when the letter or
\* the match is missing; the match is the leftmost one, group(1) its digits
Component(s, unit) ==
    IF unit \notin Range(s) \/ MatchStarts(s, unit) = {} THEN 0
    ELSE LET i == CHOOSE a \in MatchStarts(s, unit) :
                      \A b \in MatchStarts(s, unit) : a <= b
             j == CHOOSE e \in i..(Len(s) - 1) :
                      /\ \A k \in i..e : IsDigit(s[k])
                      /\ s[e + 1] = unit
         IN  int(SubSeq(s, i, j))

\* _parse_duration that renders the hours whatever they are
_parse_duration_AlwaysHours(duration_string) ==
    IF duration_string = PyNone \/ duration_string.v = <<>> THEN "Unknown"
    ELSE LET s == RemovePT(duration_string.v)
             hours == Component(s, "H")
             minutes == Component(s, "M")
             seconds == Component(s, "S")
         IN  Format02d(hours) \o ":" \o Format02d(minutes) \o ":"
                 \o Format02d(seconds)

\* _parse_duration (lines 198-241); duration_string is None or a str
_parse_duration(duration_string) ==
    IF duration_string = PyNone \/ duration_string.v = <<>> THEN "Unknown"
    ELSE LET s == RemovePT(duration_string.v)
             hours == Component(s, "H")
             minutes == Component(s, "M")
             seconds == Component(s, "S")
         IN  IF hours > 0
             THEN Format02d(hours) \o ":" \o Format02d(minutes) \o ":"
                      \o Format02d(seconds)
             ELSE Format02d(minutes) \o ":" \o Format02d(seconds)

\* int(statistics.get(key, 0)) (lines 83-85, 146-148)
Count(statistics, key) ==
    IF key \in DOMAIN statistics THEN int(statistics[key]) ELSE 0

\* snippet.get('thumbnails', {}).get('medium', {}).get('url', '')
ThumbnailUrl(snippet) ==
    Get(Get(Get(snippet, "thumbnails", EmptyDict), "medium", EmptyDict),
        "url", "")

\* the detail part of format_video_info that leaves made_for_kids out when
\* the status block has no madeForKids
VideoDetailFields_KidsOnlyIfGiven(info, details) ==
    LET detail_category_id ==
            Get(Get(details, "snippet", EmptyDict), "categoryId", "")
        \* lines 65-74: the name lookup raises inside the try, after
        \* category_id was assigned
        category ==
            IF ~Truthy(info.category_id) /\ Truthy(detail_category_id)
            THEN [category_id |-> detail_category_id,
                  category_name |->
                      IF "_get_category_name" \in FormatterAttrs
                      THEN _get_category_name(detail_category_id)
                      ELSE info.category_name]
            ELSE [category_id |-> info.category_id,
                  category_name |-> info.category_name]
        statistics == Get(details, "statistics", EmptyDict)
        status == Get(details, "status", EmptyDict)
        topic_details == Get(details, "topicDetails", EmptyDict)
        \* lines 93-111: the except branch resets the topic fields
        topic_ids ==
            IF /\ "_format_topic_categories" \in FormatterAttrs
               /\ "_format_relevant_topic_ids" \in FormatterAttrs
            THEN Get(topic_details, "relevantTopicIds", <<>>)
            ELSE <<>>
        duration == Get(Get(details, "contentDetails", EmptyDict),
                        "duration", <<>>)
    IN  [info EXCEPT !.category_id = category.category_id,
                     !.category_name = category.category_name,
                     !.topic_ids = topic_ids] @@
        [duration |-> duration,
         duration_readable |-> _parse_duration(PyStr(duration)),
         view_count |-> Count(statistics, "viewCount"),
         like_count |-> Count(statistics, "likeCount"),
         comment_count |-> Count(statistics, "commentCount"),
         privacy_status |-> Get(status, "privacyStatus", "unknown")] @@
        [k \in {"made_for_kids"} \cap
                {IF "madeForKids" \in DOMAIN status
                 THEN "made_for_kids" ELSE ""} |-> status.madeForKids]

\* the detail part of format_video_info (lines 61-111)
VideoDetailFields(info, details) ==
    LET detail_category_id ==
            Get(Get(details, "snippet", EmptyDict), "categoryId", "")
        \* lines 65-74: the name lookup raises inside the try, after
        \* category_id was assigned
        category ==
            IF ~Truthy(info.category_id) /\ Truthy(detail_category_id)
            THEN [category_id |-> detail_category_id,
                  category_name |->
                      IF "_get_category_name" \in FormatterAttrs
                      THEN _get_category_name(detail_category_id)
                      ELSE info.category_name]
            ELSE [category_id |-> info.category_id,
                  category_name |-> info.category_name]
        statistics == Get(details, "statistics", EmptyDict)
        status == Get(details, "status", EmptyDict)
        topic_details == Get(details, "topicDetails", EmptyDict)
        \* lines 93-111: the except branch resets the topic fields
        topic_ids ==
            IF /\ "_format_topic_categories" \in FormatterAttrs
               /\ "_format_relevant_topic_ids" \in FormatterAttrs
            THEN Get(topic_details, "relevantTopicIds", <<>>)
            ELSE <<>>
        duration == Get(Get(details, "contentDetails", EmptyDict),
                        "duration", <<>>)
    IN  [info EXCEPT !.category_id = category.category_id,
                     !.category_name = category.category_name,
                     !.topic_ids = topic_ids] @@
        [duration |-> duration,
         duration_readable |-> _parse_duration(PyStr(duration)),
         view_count |-> Count(statistics, "viewCount"),
         like_count |-> Count(statistics, "likeCount"),
         comment_count |-> Count(statistics, "commentCount"),
         made_for_kids |-> Get(status, "madeForKids", FALSE),
         privacy_status |-> Get(status, "privacyStatus", "unknown")]

\* format_video_info, where it does not raise
format_video_info(item, video_details) ==
    LET snippet == Get(item, "snippet", EmptyDict)
        video_id == Get(Get(item, "id", EmptyDict), "videoId", "")
        search_category_id == Get(snippet, "categoryId", "")
        category_name == IF Truthy(search_category_id)
                         THEN _get_category_name(search_category_id)
                         ELSE ""
        info == [type |-> "video",
                 id |-> video_id,
                 title |-> Get(snippet, "title", "No title"),
                 description |-> Get(snippet, "description",
                                     "No description"),
                 channel_title |-> Get(snippet, "channelTitle",
                                       "Unknown Channel"),
                 channel_id |-> Get(snippet, "channelId", ""),
                 published_at |-> Get(snippet, "publishedAt", ""),
                 thumbnail_url |-> ThumbnailUrl(snippet),
                 url |-> IF Truthy(video_id)
                         THEN "https://www.youtube.com/watch?v=" \o video_id
                         ELSE "",
                 category_id |-> search_category_id,
                 category_name |-> category_name,
                 topic_ids |-> <<>>,
                 inferred_topics |-> IF Truthy(category_name)
                                     THEN <<category_name>> ELSE <<>>]
    IN  IF HasDetails(video_details)
        THEN VideoDetailFields(info, video_details)
        ELSE info

\* format_channel_info that builds the url whatever the id is
format_channel_info_UrlAlways(item, channel_details) ==
    LET snippet == Get(item, "snippet", EmptyDict)
        channel_id == Get(Get(item, "id", EmptyDict), "channelId", "")
        info == [type |-> "channel",
                 id |-> channel_id,
                 title |-> Get(snippet, "title", "No title"),
                 description |-> Get(snippet, "description",
                                     "No description"),
                 published_at |-> Get(snippet, "publishedAt", ""),
                 thumbnail_url |-> ThumbnailUrl(snippet),
                 url |-> "https://www.youtube.com/channel/" \o channel_id]
        statistics == Get(channel_details, "statistics", EmptyDict)
        branding == Get(channel_details, "brandingSettings", EmptyDict)
    IN  IF HasDetails(channel_details)
        THEN info @@
             [subscriber_count |-> Count(statistics, "subscriberCount"),
              video_count |-> Count(statistics, "videoCount"),
              view_count |-> Count(statistics, "viewCount"),
              keywords |-> Get(Get(branding, "channel", EmptyDict),
                               "keywords", "")]
        ELSE info

format_channel_info(item, channel_details) ==
    LET snippet == Get(item, "snippet", EmptyDict)
        channel_id == Get(Get(item, "id", EmptyDict), "channelId", "")
        info == [type |-> "channel",
                 id |-> channel_id,
                 title |-> Get(snippet, "title", "No title"),
                 description |-> Get(snippet, "description",
                                     "No description"),
                 published_at |-> Get(snippet, "publishedAt", ""),
                 thumbnail_url |-> ThumbnailUrl(snippet),
                 url |-> IF Truthy(channel_id)
                         THEN "https://www.youtube.com/channel/" \o channel_id
                         ELSE ""]
        statistics == Get(channel_details, "statistics", EmptyDict)
        branding == Get(channel_details, "brandingSettings", EmptyDict)
    IN  IF HasDetails(channel_details)
        THEN info @@
             [subscriber_count |-> Count(statistics, "subscriberCount"),
              video_count |-> Count(statistics, "videoCount"),
              view_count |-> Count(statistics, "viewCount"),
              keywords |-> Get(Get(branding, "channel", EmptyDict),
                               "keywords", "")]
        ELSE info

format_playlist_info(item, playlist_details) ==
    LET snippet == Get(item, "snippet", EmptyDict)
        playlist_id == Get(Get(item, "id", EmptyDict), "playlistId", "")
        info == [type |-> "playlist",
                 id |-> playlist_id,
                 title |-> Get(snippet, "title", "No title"),
                 description |-> Get(snippet, "description",
                                     "No description"),
                 channel_title |-> Get(snippet, "channelTitle",
                                       "Unknown Channel"),
                 channel_id |-> Get(snippet, "channelId", ""),
                 published_at |-> Get(snippet, "publishedAt", ""),
                 thumbnail_url |-> ThumbnailUrl(snippet),
                 url |-> IF Truthy(playlist_id)
                         THEN "https://www.youtube.com/playlist?list="
                                  \o playlist_id
                         ELSE ""]
    IN  IF HasDetails(playlist_details)
        THEN info @@
             [item_count |-> Get(Get(playlist_details, "contentDetails",
                                     EmptyDict), "itemCount", 0),
              privacy_status |-> Get(Get(playlist_details, "status",
                                         EmptyDict), "privacyStatus",
                                     "unknown")]
        ELSE info

---------------------------------------------------------------------------
(* FilterManager *)

\* filter_by_topic (lines 433-445)
filter_by_topic(result_list, topic_id) ==
    IF ~Truthy(topic_id) THEN result_list
    ELSE SelectSeq(result_list,
                   LAMBDA result :
                       topic_id \in Range(Get(result, "topic_ids", <<>>)))

\* filter_by_kids_content (lines 447-458); result.get('made_for_kids') is
\* None where the key is missing, and None equals neither True nor False
filter_by_kids_content(result_list, made_for_kids) ==
    IF made_for_kids = PyNone THEN result_list
    ELSE SelectSeq(result_list,
                   LAMBDA result :
                       /\ "made_for_kids" \in DOMAIN result
                       /\ result.made_for_kids = made_for_kids.v)

---------------------------------------------------------------------------
(* YouTubeSearchService._should_include_video *)

\* lines 225-229: the topic filter
TopicFilterPasses(formatted_info, params) ==
    LET topic_id == Get(params, "topic_id", None)
        video_topic_ids == Get(formatted_info, "topic_ids", <<>>)
    IN  ~(/\ Truthy(topic_id)
          /\ video_topic_ids # <<>>
          /\ topic_id \notin Range(video_topic_ids))

\* a kids content filter that reads a missing made_for_kids flag as False
KidsFilterPasses_MissingIsFalse(formatted_info, params) ==
    LET kids_filter == Get(params, "kids_filter", None)
    IN  ~(/\ kids_filter # "any"
          /\ Get(formatted_info, "made_for_kids", FALSE) # (kids_filter = "yes"))

\* lines 232-236: the kids content filter
KidsFilterPasses(formatted_info, params) ==
    LET kids_filter == Get(params, "kids_filter", None)
    IN  ~(/\ kids_filter # "any"
          /\ "made_for_kids" \in DOMAIN formatted_info
          /\ formatted_info.made_for_kids # (kids_filter = "yes"))

_should_include_video(formatted_info, params) ==
    /\ TopicFilterPasses(formatted_info, params)
    /\ KidsFilterPasses(formatted_info, params)


---------------------------------------------------------------------------
(* The requests search is called with *)

ContentTypes == {"video", "channel", "playlist"}

ContentTypeOrder == <<"video", "channel", "playlist">>

\* content_types: the kinds asked for, each once, in the order the search
\* form lists them
ContentTypeLists ==
    {SelectSeq(ContentTypeOrder, LAMBDA ct : ct \in S) :
        S \in SUBSET ContentTypes \ {{}}}

CategoryOrder == <<"20", "10", "22", "24">>

\* category_id: unset (None), the empty list, or a list of category ids
CategoryInputs ==
    {PyNone, PyList(<<>>)} \cup
    {PyList(SubSeq(CategoryOrder, 1, n)) : n \in 1..Len(CategoryOrder)}

\* line 50: category_ids and isinstance(category_ids, list) and len(...) > 0
IsCategoryList(category_ids) ==
    category_ids.t = "list" /\ Len(category_ids.v) > 0

\* the number of search_content calls the request fans out to
FanOut(params) ==
    Len(params.content_types) *
        (IF IsCategoryList(params.category_id)
         THEN Len(params.category_id.v) ELSE 1)

SearchRequests ==
    {r \in [content_types : ContentTypeLists,
            category_id : CategoryInputs,
            max_results : 1..MaxResults,
            topic_id : {None, TopicMusic},
            kids_filter : {"any", "yes", "no"}] :
        FanOut(r) <= MaxFanOut}

ApiKeys == {None, "key-1"}

---------------------------------------------------------------------------
(* YouTubeAPIClient *)

\* build('youtube', 'v3', developerKey=...) where it succeeds (line 27): the
\* service object, which keeps the key it was built with
build(developerKey) == "youtube-v3:" \o developerKey

\* is_ready (lines 57-59)
is_ready == youtube # None

\* what one direct call of a client operation did: its argument, whether it
\* raised, what it returned (result of set_api_key, the ids of the items of
\* the others) and the remote requests it issued
Outcome(op, args, raised, result, returned, remote) ==
    [op |-> op, args |-> args, raised |-> raised, result |-> result,
     returned |-> returned, remote |-> remote]

\* app.main has not run yet
NoSearch == [outcome |-> "none"]

NoPage ==
    [view |-> "none", inputs |-> EmptyDict, search |-> NoSearch,
     shown |-> PyNone, rerun |-> FALSE]

\* no client operation was called directly yet
NoOp == Outcome("none", PyNone, FALSE, FALSE, <<>>, <<>>)

\* one entry of the log of remote calls
Call(op, content_type, category, ids, ok, returned) ==
    [op |-> op, content_type |-> content_type, category |-> category,
     ids |-> ids, ok |-> ok, returned |-> returned]

\* the search.list call search_content builds from its params (lines 76-90)
SearchCall(params, ok, returned) ==
    Call("search_content", Get(params, "content_type", "video"),
         Get(params, "category_id", PyNone), <<>>, ok, returned)

DetailOp(content_type) ==
    IF content_type = "video" THEN "get_video_details"
    ELSE IF content_type = "channel" THEN "get_channel_details"
    ELSE "get_playlist_details"

\* the *.list call of a detail lookup (lines 120-123, 164-167, 194-197)
DetailCall(content_type, ids, ok, returned) ==
    Call(DetailOp(content_type), content_type, PyNone, ids, ok, returned)


---------------------------------------------------------------------------
(* YouTubeSearchService.search and _process_results *)

content_types == search_params.content_types
content_type == content_types[type_idx]
category_ids == search_params.category_id
MultiCategory == IsCategoryList(category_ids)

\* lines 56-58 (one category of the list) and 95-96 (the request as it is)
TypeParams ==
    IF MultiCategory
    THEN [search_params EXCEPT !.category_id = PyStr(category_ids.v[cat_idx])]
             @@ [content_type |-> content_type]
    ELSE search_params @@ [content_type |-> content_type]

ResultKey(ct) ==
    IF ct = "video" THEN "videos"
    ELSE IF ct = "channel" THEN "channels" ELSE "playlists"

\* the list is stored under every key of results
Store_EveryKey(res, ct, formatted) == [k \in DOMAIN res |-> formatted]

\* lines 117-122
Store(res, ct, formatted) == [res EXCEPT ![ResultKey(ct)] = formatted]

EmptyResults == [videos |-> <<>>, channels |-> <<>>, playlists |-> <<>>]

\* line 84: result.get('video_id') or result.get('channel_id')
\*          or result.get('playlist_id')
result_id(result) ==
    LET a == Get(result, "video_id", None)
        b == Get(result, "channel_id", None)
        c == Get(result, "playlist_id", None)
    IN  IF Truthy(a) THEN a ELSE IF Truthy(b) THEN b ELSE c

\* lines 79-89: the loop over all_formatted_results
RECURSIVE UniqueLoop(_, _, _, _)
UniqueLoop(rest, seen_ids, unique_results, max_results) ==
    IF rest = <<>> THEN unique_results
    ELSE IF result_id(Head(rest)) \in seen_ids
    THEN UniqueLoop(Tail(rest), seen_ids, unique_results, max_results)
    ELSE IF Len(unique_results) + 1 >= max_results
    THEN Append(unique_results, Head(rest))
    ELSE UniqueLoop(Tail(rest), seen_ids \cup {result_id(Head(rest))},
                    Append(unique_results, Head(rest)), max_results)

unique_results(all_results, max_results) ==
    UniqueLoop(all_results, {}, <<>>, max_results)

\* a lookup that asks for the first hit only
VideoIdsOf_FirstOnly(raw) ==
    LET ids == [i \in 1..Len(raw) |->
                   Get(Get(raw[i], "id", EmptyDict), "videoId", None)]
    IN  Take(SelectSeq(ids, Truthy), 1)

\* lines 142-146: the ids the batched lookup asks for
VideoIdsOf(raw) ==
    LET ids == [i \in 1..Len(raw) |->
                   Get(Get(raw[i], "id", EmptyDict), "videoId", None)]
    IN  SelectSeq(ids, Truthy)

\* lines 149-157: video_details_dict
VideoDetailsDict(video_details_list) ==
    LET keys == {Get(d, "id", None) : d \in Range(video_details_list)}
    IN  [k \in {x \in keys : Truthy(x)} |->
            CHOOSE d \in Range(video_details_list) : Get(d, "id", None) = k]

\* line 165
LookupDetails(video_details_dict, item) ==
    LET video_id == Get(Get(item, "id", EmptyDict), "videoId", None)
    IN  IF Truthy(video_id) /\ video_id \in DOMAIN video_details_dict
        THEN video_details_dict[video_id] ELSE EmptyDict

\* lines 162-175: format each hit, keep the ones the post-filter passes
RECURSIVE FormatVideos(_, _, _)
FormatVideos(raw, video_details_dict, params) ==
    IF raw = <<>> THEN <<>>
    ELSE LET item == Head(raw)
             rest == FormatVideos(Tail(raw), video_details_dict, params)
             formatted_info ==
                 format_video_info(item, LookupDetails(video_details_dict, item))
         IN  IF format_video_info_raises(item) THEN rest
             ELSE IF _should_include_video(formatted_info, params)
             THEN <<formatted_info>> \o rest
             ELSE rest

\* lines 181-203: one channel or playlist hit with its details (or None)
FormatItem(ct, item, details) ==
    IF ct = "channel" THEN format_channel_info(item, details)
    ELSE format_playlist_info(item, details)

\* line 52: all_formatted_results is emptied before the first category
AllSoFar == IF cat_idx = 1 THEN <<>> ELSE all_formatted_results

\* _process_results returns into search: line 72 (and the loop goes on) or
\* lines 105-122 (the one call of the content type is stored)
ReturnToSearch(formatted) ==
    /\ pc' = "fanout"
    /\ raw_results' = <<>>
    /\ formatted_results' = <<>>
    /\ item_idx' = 1
    /\ IF MultiCategory
       THEN /\ all_formatted_results' = AllSoFar \o formatted
            /\ cat_idx' = cat_idx + 1
            /\ UNCHANGED <<results, type_idx>>
       ELSE /\ results' = Store(results, content_type, formatted)
            /\ type_idx' = type_idx + 1
            /\ UNCHANGED <<all_formatted_results, cat_idx>>

\* the next statement of search is a search_content call
AtFanOut ==
    /\ pc = "fanout"
    /\ type_idx <= Len(content_types)
    /\ MultiCategory => cat_idx <= Len(category_ids.v)

\* search without the readiness check of lines 35-36
Search_NotReady_Unchecked ==
    /\ pc = "idle"
    /\ ~is_ready
    /\ pc' = "fanout"
    /\ results' = EmptyResults
    /\ type_idx' = 1
    /\ cat_idx' = 1
    /\ all_formatted_results' = <<>>
    /\ UNCHANGED <<session_state, page,
                   environ, last_op, api_key, youtube, search_params,
                   outcome, type_params,
                   raw_results, formatted_results, item_idx, calls>>

\* lines 35-36
Search_NotReady ==
    /\ pc = "idle"
    /\ ~is_ready
    /\ pc' = "done"
    /\ outcome' = "raised"
    /\ UNCHANGED <<session_state, page,
                   environ, last_op, api_key, youtube, search_params,
                   results, type_idx,
                   cat_idx, all_formatted_results, type_params, raw_results,
                   formatted_results, item_idx, calls>>

\* lines 38-44
Search_Begin ==
    /\ pc = "idle"
    /\ is_ready
    /\ pc' = "fanout"
    /\ results' = EmptyResults
    /\ type_idx' = 1
    /\ cat_idx' = 1
    /\ all_formatted_results' = <<>>
    /\ UNCHANGED <<session_state, page,
                   environ, last_op, api_key, youtube, search_params,
                   outcome, type_params,
                   raw_results, formatted_results, item_idx, calls>>

\* search_content raises and the content type is given up: the categories
\* left are not searched and what the earlier ones gathered is lost
SearchContent_Raises_Aborts ==
    /\ AtFanOut
    /\ type_params' = TypeParams
    /\ calls' = IF is_ready
                THEN Append(calls, SearchCall(TypeParams, FALSE, <<>>))
                ELSE calls
    /\ IF MultiCategory
       THEN /\ cat_idx' = Len(category_ids.v) + 1
            /\ type_idx' = type_idx
            /\ all_formatted_results' = <<>>
       ELSE /\ type_idx' = type_idx + 1
            /\ cat_idx' = cat_idx
            /\ all_formatted_results' = all_formatted_results
    /\ UNCHANGED <<session_state, page,
                   environ, last_op, api_key, youtube, search_params,
                   pc, outcome, results,
                   raw_results, formatted_results, item_idx>>

\* search_content raises and the same call is made again
SearchContent_Raises_Retries ==
    /\ AtFanOut
    /\ type_params' = TypeParams
    /\ calls' = IF is_ready
                THEN Append(calls, SearchCall(TypeParams, FALSE, <<>>))
                ELSE calls
    /\ all_formatted_results' = AllSoFar
    /\ UNCHANGED <<session_state, page,
                   environ, last_op, api_key, youtube, search_params, pc,
                   outcome, results, type_idx, cat_idx, raw_results,
                   formatted_results, item_idx>>

\* search_content raises and nothing in search catches it
SearchContent_Raises_Propagates ==
    /\ AtFanOut
    /\ type_params' = TypeParams
    /\ calls' = IF is_ready
                THEN Append(calls, SearchCall(TypeParams, FALSE, <<>>))
                ELSE calls
    /\ pc' = "done"
    /\ outcome' = "raised"
    /\ UNCHANGED <<session_state, page,
                   environ, last_op, api_key, youtube, search_params,
                   results, type_idx,
                   cat_idx, all_formatted_results, raw_results,
                   formatted_results, item_idx>>

\* lines 63 / 101: search_content raises (line 72 before any request when
\* the client is not ready); lines 74-76 / 112-114 catch it
SearchContent_Raises ==
    /\ AtFanOut
    /\ type_params' = TypeParams
    /\ calls' = IF is_ready
                THEN Append(calls, SearchCall(TypeParams, FALSE, <<>>))
                ELSE calls
    /\ IF MultiCategory
       THEN /\ cat_idx' = cat_idx + 1
            /\ type_idx' = type_idx
            /\ all_formatted_results' = AllSoFar
       ELSE /\ type_idx' = type_idx + 1
            /\ cat_idx' = cat_idx
            /\ all_formatted_results' = all_formatted_results
    /\ UNCHANGED <<session_state, page,
                   environ, last_op, api_key, youtube, search_params,
                   pc, outcome, results,
                   raw_results, formatted_results, item_idx>>

\* search_content returns, and type_params is search_params itself instead
\* of the copy of lines 56 / 95
SearchContent_Returns_NoCopy ==
    /\ AtFanOut
    /\ is_ready
    /\ type_params' = TypeParams
    /\ search_params' = TypeParams
    /\ \E ids \in SearchAnswers(TypeParams.content_type, TypeParams.max_results) :
          /\ calls' = Append(calls, SearchCall(TypeParams, TRUE, ids))
          /\ raw_results' = ItemsOf(TypeParams.content_type, ids)
    /\ pc' = "process"
    /\ formatted_results' = <<>>
    /\ item_idx' = 1
    /\ UNCHANGED <<session_state, page,
                   environ, last_op, api_key, youtube, outcome, results,
                   type_idx, cat_idx, all_formatted_results>>

\* lines 63 / 101: search_content returns the items of the answer
SearchContent_Returns ==
    /\ AtFanOut
    /\ is_ready
    /\ type_params' = TypeParams
    /\ \E ids \in SearchAnswers(TypeParams.content_type, TypeParams.max_results) :
          /\ calls' = Append(calls, SearchCall(TypeParams, TRUE, ids))
          /\ raw_results' = ItemsOf(TypeParams.content_type, ids)
    /\ pc' = "process"
    /\ formatted_results' = <<>>
    /\ item_idx' = 1
    /\ UNCHANGED <<session_state, page,
                   environ, last_op, api_key, youtube, search_params,
                   outcome, results,
                   type_idx, cat_idx, all_formatted_results>>

\* lines 140-175 when no hit carries a videoId: no lookup is made
ProcessVideos_NoIds ==
    /\ pc = "process"
    /\ content_type = "video"
    /\ VideoIdsOf(raw_results) = <<>>
    /\ ReturnToSearch(FormatVideos(raw_results, EmptyDict, search_params))
    /\ UNCHANGED <<session_state, page,
                   environ, last_op, api_key, youtube, search_params,
                   outcome, type_params,
                   calls>>

\* lines 150-157, 162-175: the batched lookup returns
GetVideoDetails_Returns ==
    /\ pc = "process"
    /\ is_ready
    /\ content_type = "video"
    /\ VideoIdsOf(raw_results) # <<>>
    /\ LET video_ids == VideoIdsOf(raw_results)
           video_details_list == DetailAnswer("video", video_ids)
       IN  /\ calls' = Append(calls,
                  DetailCall("video", video_ids, TRUE,
                             [i \in 1..Len(video_details_list) |->
                                 video_details_list[i].id]))
           /\ ReturnToSearch(FormatVideos(raw_results,
                  VideoDetailsDict(video_details_list), search_params))
    /\ UNCHANGED <<session_state, page,
                   environ, last_op, api_key, youtube, search_params,
                   outcome, type_params>>

\* lines 150-159, 162-175: the batched lookup raises and is caught
GetVideoDetails_Raises ==
    /\ pc = "process"
    /\ content_type = "video"
    /\ VideoIdsOf(raw_results) # <<>>
    /\ calls' = IF is_ready
                THEN Append(calls, DetailCall("video",
                         VideoIdsOf(raw_results), FALSE, <<>>))
                ELSE calls
    /\ ReturnToSearch(FormatVideos(raw_results, EmptyDict, search_params))
    /\ UNCHANGED <<session_state, page,
                   environ, last_op, api_key, youtube, search_params,
                   outcome, type_params>>

AtItem ==
    /\ pc = "process"
    /\ content_type # "video"
    /\ item_idx <= Len(raw_results)

ItemId(ct, item) == Get(Get(item, "id", EmptyDict), IdKey(ct), None)

\* lines 179-205: the lookup of one channel or playlist hit returns
ItemDetails_Returns ==
    /\ AtItem
    /\ is_ready \/ ~Truthy(ItemId(content_type, raw_results[item_idx]))
    /\ LET item == raw_results[item_idx]
           entity_id == ItemId(content_type, item)
           details == DetailAnswer(content_type, <<entity_id>>)
       IN  IF Truthy(entity_id)
           THEN /\ calls' = Append(calls,
                       DetailCall(content_type, <<entity_id>>, TRUE,
                                  [i \in 1..Len(details) |-> details[i].id]))
                /\ formatted_results' = Append(formatted_results,
                       FormatItem(content_type, item,
                           IF details # <<>> THEN details[1] ELSE EmptyDict))
           ELSE /\ calls' = calls
                /\ formatted_results' = Append(formatted_results,
                       FormatItem(content_type, item, EmptyDict))
    /\ item_idx' = item_idx + 1
    /\ UNCHANGED <<session_state, page,
                   environ, last_op, api_key, youtube, search_params,
                   pc, outcome, results,
                   type_idx, cat_idx, all_formatted_results, type_params,
                   raw_results>>

\* lines 185 / 197 raise; lines 207-209 catch and go on with the next hit
ItemDetails_Raises ==
    /\ AtItem
    /\ Truthy(ItemId(content_type, raw_results[item_idx]))
    /\ calls' = IF is_ready
                THEN Append(calls, DetailCall(content_type,
                         <<ItemId(content_type, raw_results[item_idx])>>,
                         FALSE, <<>>))
                ELSE calls
    /\ item_idx' = item_idx + 1
    /\ UNCHANGED <<session_state, page,
                   environ, last_op, api_key, youtube, search_params,
                   pc, outcome, results,
                   type_idx, cat_idx, all_formatted_results, type_params,
                   raw_results, formatted_results>>

\* line 211: the item loop of a channel or playlist answer is over
ProcessItems_Done ==
    /\ pc = "process"
    /\ content_type # "video"
    /\ item_idx > Len(raw_results)
    /\ ReturnToSearch(formatted_results)
    /\ UNCHANGED <<session_state, page,
                   environ, last_op, api_key, youtube, search_params,
                   outcome, type_params,
                   calls>>

\* lines 78-91 and 117-122: the category loop is over
Deduplicate ==
    /\ pc = "fanout"
    /\ type_idx <= Len(content_types)
    /\ MultiCategory
    /\ cat_idx > Len(category_ids.v)
    /\ results' = Store(results, content_type,
           unique_results(all_formatted_results, search_params.max_results))
    /\ type_idx' = type_idx + 1
    /\ cat_idx' = 1
    /\ UNCHANGED <<session_state, page,
                   environ, last_op, api_key, youtube, search_params,
                   pc, outcome,
                   all_formatted_results, type_params, raw_results,
                   formatted_results, item_idx, calls>>

\* line 124
Search_Return ==
    /\ pc = "fanout"
    /\ type_idx > Len(content_types)
    /\ pc' = "done"
    /\ outcome' = "returned"
    /\ UNCHANGED <<session_state, page,
                   environ, last_op, api_key, youtube, search_params,
                   results, type_idx,
                   cat_idx, all_formatted_results, type_params, raw_results,
                   formatted_results, item_idx, calls>>

---------------------------------------------------------------------------
(* The specification *)

\* YouTubeSearchService(api_key) was constructed; search has not been called
Init ==
    /\ \E key \in ApiKeys, built \in BOOLEAN :
          /\ api_key = key
          /\ youtube = IF Truthy(key) /\ built THEN build(key) ELSE None
    /\ search_params \in SearchRequests
    /\ pc = "idle"
    /\ outcome = "none"
    /\ results = EmptyResults
    /\ type_idx = 1
    /\ cat_idx = 1
    /\ all_formatted_results = <<>>
    /\ type_params = EmptyDict
    /\ raw_results = <<>>
    /\ formatted_results = <<>>
    /\ item_idx = 1
    /\ calls = <<>>
    /\ environ = None
    /\ last_op = NoOp
    /\ session_state = EmptyDict
    /\ page = NoPage

Next ==
    \/ Search_NotReady
    \/ Search_Begin
    \/ SearchContent_Raises
    \/ SearchContent_Returns
    \/ ProcessVideos_NoIds
    \/ GetVideoDetails_Returns
    \/ GetVideoDetails_Raises
    \/ ItemDetails_Returns
    \/ ItemDetails_Raises
    \/ ProcessItems_Done
    \/ Deduplicate
    \/ Search_Return

Spec == Init /\ [][Next]_vars


---------------------------------------------------------------------------
(* YouTubeAPIClient, its operations called one at a time *)

\* the credentials set_api_key and the constructor are given
Credentials == {None, "", "key-1", "key-2"}

\* the key of YOUTUBE_API_KEY or of config.py, when there is one
EnvKey == "env-key"

\* _get_api_key (lines 34-50)
_get_api_key == environ

\* lines 22-23: the key _initialize_service goes on with
InitKey(key) == IF ~Truthy(key) THEN _get_api_key ELSE key

\* lines 25-32: the value _initialize_service returns
InitResult(key, build_ok) == Truthy(InitKey(key)) /\ build_ok

\* lines 20-32: the attributes after _initialize_service; build_ok says
\* whether build() returns or raises.  self.youtube is assigned on line 27
\* alone
_initialize_service(key, build_ok) ==
    /\ api_key' = InitKey(key)
    /\ youtube' = IF InitResult(key, build_ok)
                  THEN build(InitKey(key)) ELSE youtube

\* set_api_key (lines 52-55)
set_api_key ==
    \E credential \in Credentials, build_ok \in BOOLEAN :
        /\ _initialize_service(credential, build_ok)
        /\ last_op' = Outcome("set_api_key",
               [credential |-> credential,
                built |-> Truthy(InitKey(credential)) /\ build_ok],
               FALSE, InitResult(credential, build_ok), <<>>, <<>>)
        /\ UNCHANGED <<session_state, page,
                       environ, search_params, pc, outcome, results,
                       type_idx, cat_idx, all_formatted_results, type_params,
                       raw_results, formatted_results, item_idx, calls>>

\* the optional filters of a search and the search.list keyword of each
OptionalFilters ==
    [video_duration |-> "videoDuration",
     video_definition |-> "videoDefinition",
     category_id |-> "videoCategoryId",
     published_after |-> "publishedAfter",
     published_before |-> "publishedBefore",
     region_code |-> "regionCode",
     language |-> "relevanceLanguage"]

\* a value each filter takes when it is set
FilterValue ==
    [video_duration |-> PyStr("short"),
     video_definition |-> PyStr("high"),
     category_id |-> PyStr("10"),
     published_after |-> PyStr("2024-01-01T00:00:00Z"),
     published_before |-> PyStr("2024-12-31T00:00:00Z"),
     region_code |-> PyStr("US"),
     language |-> PyStr("en")]

\* the filters of the requests search_content is given: no filter key at
\* all, every filter None (the search form's default), every filter set, one
\* filter set and the others None, and the empty category list
FilterDicts ==
    {EmptyDict,
     [k \in DOMAIN OptionalFilters |-> PyNone],
     FilterValue,
     [[k \in DOMAIN OptionalFilters |-> PyNone]
         EXCEPT !.category_id = PyList(<<>>)]}
    \cup {[k \in DOMAIN OptionalFilters |->
              IF k = set THEN FilterValue[k] ELSE PyNone] :
          set \in DOMAIN OptionalFilters}

ClientSearchParams ==
    {[content_type |-> PyStr(ct), max_results |-> PyInt(1)] @@ f :
        ct \in ContentTypes, f \in FilterDicts}

\* lines 76-90: the keyword arguments search_content hands to search().list
SearchListArgs(params) ==
    [part |-> PyStr("snippet"),
     q |-> Get(params, "query", PyStr("")),
     type |-> Get(params, "content_type", PyStr("video")),
     maxResults |-> Get(params, "max_results", PyInt(10)),
     order |-> Get(params, "order", PyStr("relevance")),
     safeSearch |-> Get(params, "safe_search", PyStr("moderate")),
     videoDuration |-> Get(params, "video_duration", PyNone),
     videoDefinition |-> Get(params, "video_definition", PyNone),
     videoCategoryId |-> Get(params, "category_id", PyNone),
     publishedAfter |-> Get(params, "published_after", PyNone),
     publishedBefore |-> Get(params, "published_before", PyNone),
     regionCode |-> Get(params, "region_code", PyNone),
     relevanceLanguage |-> Get(params, "language", PyNone)]

\* the request search().list(...) builds from its keyword arguments: the
\* client library leaves out the arguments whose value is None, and no other
RequestOf(kwargs) ==
    [k \in {a \in DOMAIN kwargs : kwargs[a] # PyNone} |-> kwargs[k]]

\* _clean_uri (lines 207-211)
_clean_uri(uri) == uri

\* one remote request
Remote(method, args) == [method |-> method, args |-> args]

\* what the remote service does with a request: it fails (None) or
\* answers with a list of items
RemoteAnswers(items) == {PyNone} \cup {PyList(i) : i \in items}

\* search_content (lines 61-101)
search_content ==
    \E params \in ClientSearchParams :
        /\ LET request == _clean_uri(RequestOf(SearchListArgs(params)))
           IN  IF ~is_ready
               THEN last_op' = Outcome("search_content", params, TRUE, FALSE,
                                       <<>>, <<>>)
               ELSE \E answer \in RemoteAnswers(
                           SearchAnswers(request.type.v,
                                         request.maxResults.v)) :
                       last_op' = Outcome("search_content", params,
                           answer = PyNone, FALSE,
                           IF answer = PyNone THEN <<>> ELSE answer.v,
                           <<Remote("search.list", request)>>)
        /\ UNCHANGED <<session_state, page,
                       api_key, youtube, environ, search_params, pc,
                       outcome, results, type_idx, cat_idx,
                       all_formatted_results, type_params, raw_results,
                       formatted_results, item_idx, calls>>

\* ",".join(ids)
RECURSIVE Join(_)
Join(ids) ==
    IF ids = <<>> THEN ""
    ELSE IF Len(ids) = 1 THEN ids[1]
    ELSE ids[1] \o "," \o Join(Tail(ids))

\* the ID arguments the detail lookups are given: the empty list, one id as
\* a str, a list of one id and a list of two
DetailIdInputs(ct) ==
    {PyList(<<>>), PyStr(HitOrder(ct)[1]), PyList(<<HitOrder(ct)[1]>>),
     PyList(<<HitOrder(ct)[1], HitOrder(ct)[2]>>)}

\* lines 117-118: a str stands for the list of it
AsIdList(ids) == IF ids.t = "str" THEN <<ids.v>> ELSE ids.v

ListMethod(ct) ==
    IF ct = "video" THEN "videos.list"
    ELSE IF ct = "channel" THEN "channels.list" ELSE "playlists.list"

\* the detail lookups without the readiness check of lines 113-114,
\* 157-158 and 187-188
get_details_Unchecked ==
    \E ct \in ContentTypes :
      \E ids \in DetailIdInputs(ct) :
        /\ \E answer \in RemoteAnswers(
                   {DetailAnswer(ct, AsIdList(ids))}) :
               last_op' = Outcome(DetailOp(ct), ids,
                   answer = PyNone, FALSE,
                   IF answer = PyNone THEN <<>>
                   ELSE [i \in 1..Len(answer.v) |-> answer.v[i].id],
                   <<Remote(ListMethod(ct),
                            [id |-> PyStr(Join(AsIdList(ids)))])>>)
        /\ UNCHANGED <<session_state, page,
                       api_key, youtube, environ, search_params, pc,
                       outcome, results, type_idx, cat_idx,
                       all_formatted_results, type_params, raw_results,
                       formatted_results, item_idx, calls>>

\* get_video_details, get_channel_details and get_playlist_details
\* (lines 103-145, 147-175, 177-205)
get_details ==
    \E ct \in ContentTypes :
      \E ids \in DetailIdInputs(ct) :
        /\ IF ~is_ready
           THEN last_op' = Outcome(DetailOp(ct), ids, TRUE, FALSE,
                                   <<>>, <<>>)
           ELSE \E answer \in RemoteAnswers(
                       {DetailAnswer(ct, AsIdList(ids))}) :
                   last_op' = Outcome(DetailOp(ct), ids,
                       answer = PyNone, FALSE,
                       IF answer = PyNone THEN <<>>
                       ELSE [i \in 1..Len(answer.v) |-> answer.v[i].id],
                       <<Remote(ListMethod(ct),
                                [id |-> PyStr(Join(AsIdList(ids)))])>>)
        /\ UNCHANGED <<session_state, page,
                       api_key, youtube, environ, search_params, pc,
                       outcome, results, type_idx, cat_idx,
                       all_formatted_results, type_params, raw_results,
                       formatted_results, item_idx, calls>>

\* YouTubeAPIClient(api_key) was constructed (lines 15-18)
ClientInit ==
    /\ environ \in {None, EnvKey}
    /\ \E key \in Credentials, build_ok \in BOOLEAN :
          /\ api_key = InitKey(key)
          /\ youtube = IF InitResult(key, build_ok)
                       THEN build(InitKey(key)) ELSE None
    /\ last_op = NoOp
    /\ search_params = EmptyDict
    /\ pc = "idle"
    /\ outcome = "none"
    /\ results = EmptyResults
    /\ type_idx = 1
    /\ cat_idx = 1
    /\ all_formatted_results = <<>>
    /\ type_params = EmptyDict
    /\ raw_results = <<>>
    /\ formatted_results = <<>>
    /\ item_idx = 1
    /\ calls = <<>>
    /\ session_state = EmptyDict
    /\ page = NoPage

ClientNext ==
    \/ set_api_key
    \/ search_content
    \/ get_details

ClientSpec == ClientInit /\ [][ClientNext]_vars

---------------------------------------------------------------------------
(* YouTubeAPIClient, set_api_key running while another thread uses the
   client.  The class takes no lock, so the assignments of set_api_key and
   _initialize_service are separate steps; pc is the position of the thread
   inside set_api_key, last_op the call in progress and calls the log of
   what the other thread saw since the call began *)

\* the most operations logged during one call of set_api_key
MaxObserved == 2

\* set_api_key is entered (line 52)
set_api_key_Enter ==
    /\ pc = "idle"
    /\ \E credential \in Credentials :
          last_op' = Outcome("set_api_key",
              [credential |-> credential,
               before |-> [api_key |-> api_key, youtube |-> youtube]],
              FALSE, FALSE, <<>>, <<>>)
    /\ calls' = <<>>
    /\ pc' = "line_54"
    /\ UNCHANGED <<session_state, page,
                   api_key, youtube, environ, search_params, outcome,
                   results, type_idx, cat_idx, all_formatted_results,
                   type_params, raw_results, formatted_results, item_idx>>

\* line 54: self.api_key = api_key
set_api_key_Assign ==
    /\ pc = "line_54"
    /\ api_key' = last_op.args.credential
    /\ pc' = "line_22"
    /\ UNCHANGED <<session_state, page,
                   youtube, environ, last_op, calls, search_params, outcome,
                   results, type_idx, cat_idx, all_formatted_results,
                   type_params, raw_results, formatted_results, item_idx>>

\* lines 22-23: the fallback to _get_api_key
_initialize_service_Fallback ==
    /\ pc = "line_22"
    /\ api_key' = InitKey(api_key)
    /\ pc' = "line_25"
    /\ UNCHANGED <<session_state, page,
                   youtube, environ, last_op, calls, search_params, outcome,
                   results, type_idx, cat_idx, all_formatted_results,
                   type_params, raw_results, formatted_results, item_idx>>

\* lines 25-32: build() returns and self.youtube is assigned, or it raises,
\* or there is no key; set_api_key returns
_initialize_service_Build ==
    /\ pc = "line_25"
    /\ \E build_ok \in BOOLEAN :
          /\ youtube' = IF Truthy(api_key) /\ build_ok
                        THEN build(api_key) ELSE youtube
          /\ last_op' = [last_op EXCEPT
                            !.result = Truthy(api_key) /\ build_ok]
    /\ pc' = "idle"
    /\ UNCHANGED <<session_state, page,
                   api_key, environ, calls, search_params, outcome,
                   results, type_idx, cat_idx, all_formatted_results,
                   type_params, raw_results, formatted_results, item_idx>>

\* a search or detail operation of the other thread: the is_ready check and
\* the remote call use self.youtube as it is at that moment (lines 71-76,
\* 113-120); the entry records the client it saw
operation ==
    /\ Len(calls) < MaxObserved
    /\ calls' = Append(calls,
           [op |-> "search_content", at |-> pc, raised |-> ~is_ready,
            api_key |-> api_key, youtube |-> youtube])
    /\ UNCHANGED <<session_state, page,
                   api_key, youtube, environ, last_op, pc, search_params,
                   outcome, results, type_idx, cat_idx,
                   all_formatted_results, type_params, raw_results,
                   formatted_results, item_idx>>

ConcurrentNext ==
    \/ set_api_key_Enter
    \/ set_api_key_Assign
    \/ _initialize_service_Fallback
    \/ _initialize_service_Build
    \/ operation

ConcurrentSpec == ClientInit /\ [][ConcurrentNext]_vars

---------------------------------------------------------------------------
(* YouTubeDataFormatter, its functions called one at a time *)

\* the blocks of a raw hit with any of their sub-fields: no id block, an
\* empty one, one with the id; a snippet with any subset of the sub-fields
IdBlocks(ct) ==
    {EmptyDict, [id |-> EmptyDict],
     [id |-> [k \in {IdKey(ct)} |-> HitOrder(ct)[1]]]}

SnippetFields(ct) ==
    IF ct = "video"
    THEN [title |-> "A", channelId |-> "c1", categoryId |-> "10"]
    ELSE [title |-> "A", description |-> "text"]

RawHits(ct) ==
    {b @@ [snippet |-> [k \in S |-> SnippetFields(ct)[k]]] :
        b \in IdBlocks(ct), S \in SUBSET DOMAIN SnippetFields(ct)}

\* the detail records handed over: none, the ones of the catalogue and one
\* with the blocks the catalogue leaves out
DetailRecords(ct) ==
    {EmptyDict} \cup Range([i \in 1..Len(HitOrder(ct)) |->
        IF HitOrder(ct)[i] \in DOMAIN DetailStore(ct)
        THEN DetailStore(ct)[HitOrder(ct)[i]] ELSE EmptyDict]) \cup
    {[id |-> HitOrder(ct)[1],
      contentDetails |-> [duration |-> <<"P", "T", "4", "M", "1", "3", "S">>,
                          itemCount |-> 3],
      statistics |-> [viewCount |-> <<"1", "5">>,
                      subscriberCount |-> <<"7">>]]}

Call_format_video_info ==
    \E item \in RawHits("video"), details \in DetailRecords("video") :
        /\ last_op' = Outcome("format_video_info",
               [item |-> item, details |-> details],
               format_video_info_raises(item),
               IF format_video_info_raises(item) THEN PyNone
               ELSE format_video_info(item, details), <<>>, <<>>)
        /\ UNCHANGED <<session_state, page,
                       api_key, youtube, environ, search_params, pc,
                       outcome, results, type_idx, cat_idx,
                       all_formatted_results, type_params, raw_results,
                       formatted_results, item_idx, calls>>

Call_format_channel_info ==
    \E item \in RawHits("channel"), details \in DetailRecords("channel") :
        /\ last_op' = Outcome("format_channel_info",
               [item |-> item, details |-> details], FALSE,
               format_channel_info(item, details), <<>>, <<>>)
        /\ UNCHANGED <<session_state, page,
                       api_key, youtube, environ, search_params, pc,
                       outcome, results, type_idx, cat_idx,
                       all_formatted_results, type_params, raw_results,
                       formatted_results, item_idx, calls>>

Call_format_playlist_info ==
    \E item \in RawHits("playlist"), details \in DetailRecords("playlist") :
        /\ last_op' = Outcome("format_playlist_info",
               [item |-> item, details |-> details], FALSE,
               format_playlist_info(item, details), <<>>, <<>>)
        /\ UNCHANGED <<session_state, page,
                       api_key, youtube, environ, search_params, pc,
                       outcome, results, type_idx, cat_idx,
                       all_formatted_results, type_params, raw_results,
                       formatted_results, item_idx, calls>>

\* the components of a duration token: each of H, M and S absent (None) or
\* a number
ComponentValues ==
    [H |-> {PyNone, PyInt(0), PyInt(1), PyInt(12)},
     M |-> {PyNone, PyInt(0), PyInt(4), PyInt(75)},
     S |-> {PyNone, PyInt(0), PyInt(13), PyInt(59)}]

DurationParts ==
    [H : ComponentValues.H, M : ComponentValues.M, S : ComponentValues.S]

\* str(n), as characters
RECURSIVE Digits(_)
Digits(n) ==
    IF n < 10 THEN <<DigitChars[n + 1]>>
    ELSE Digits(n \div 10) \o <<DigitChars[(n % 10) + 1]>>

\* the token PT#H#M#S of the components
Token(parts) ==
    LET Part(unit) == IF parts[unit] = PyNone THEN <<>>
                      ELSE Digits(parts[unit].v) \o <<unit>>
    IN  <<"P", "T">> \o Part("H") \o Part("M") \o Part("S")

Call__parse_duration ==
    /\ \/ \E d \in {PyNone, PyStr(<<>>)} :
             last_op' = Outcome("_parse_duration",
                 [duration_string |-> d, parts |-> PyNone], FALSE,
                 _parse_duration(d), <<>>, <<>>)
       \/ \E parts \in DurationParts :
             last_op' = Outcome("_parse_duration",
                 [duration_string |-> PyStr(Token(parts)), parts |-> parts],
                 FALSE, _parse_duration(PyStr(Token(parts))), <<>>, <<>>)
    /\ UNCHANGED <<session_state, page,
                   api_key, youtube, environ, search_params, pc,
                   outcome, results, type_idx, cat_idx,
                   all_formatted_results, type_params, raw_results,
                   formatted_results, item_idx, calls>>

\* f"{count / unit:.1f}" in tenths: the quotient rounded to one decimal.
\* The quotient is a binary float, so a quotient that lies halfway between
\* two decimals goes up or down with its binary representation: both are
\* outcomes
Tenths(count, unit) ==
    LET tenth == unit \div 10
        q == count \div tenth
        r == count % tenth
    IN  IF 2 * r < tenth THEN {q}
        ELSE IF 2 * r > tenth THEN {q + 1}
        ELSE {q, q + 1}

\* the text of a number of tenths with one decimal digit and a suffix
OneDecimal(tenths, suffix) ==
    ToString(tenths \div 10) \o "." \o ToString(tenths % 10) \o suffix

\* format_count with the thousands starting above 1000
format_count_Above(count) ==
    IF count >= 1000000000
    THEN {OneDecimal(t, "B") : t \in Tenths(count, 1000000000)}
    ELSE IF count >= 1000000
    THEN {OneDecimal(t, "M") : t \in Tenths(count, 1000000)}
    ELSE IF count > 1000
    THEN {OneDecimal(t, "K") : t \in Tenths(count, 1000)}
    ELSE {ToString(count)}

\* format_count (lines 244-261): the texts it can return for count
format_count(count) ==
    IF count >= 1000000000
    THEN {OneDecimal(t, "B") : t \in Tenths(count, 1000000000)}
    ELSE IF count >= 1000000
    THEN {OneDecimal(t, "M") : t \in Tenths(count, 1000000)}
    ELSE IF count >= 1000
    THEN {OneDecimal(t, "K") : t \in Tenths(count, 1000)}
    ELSE {ToString(count)}

\* the counts format_count is given: around each threshold and between
Counts ==
    {0, 7, 999, 1000, 1049, 1050, 1234, 15000, 999949, 999950, 999999,
     1000000, 1250000, 15000000, 999999999, 1000000000, 1250000000,
     2000000000}

Call_format_count ==
    \E count \in Counts :
        /\ \E text \in format_count(count) :
              last_op' = Outcome("format_count", PyInt(count), FALSE,
                                 text, <<>>, <<>>)
        /\ UNCHANGED <<session_state, page,
                       api_key, youtube, environ, search_params, pc,
                       outcome, results, type_idx, cat_idx,
                       all_formatted_results, type_params, raw_results,
                       formatted_results, item_idx, calls>>

\* the formatted videos the filters are applied to: hits that carry their id
\* and no categoryId, with each detail record
FormattedVideos ==
    {format_video_info(item, details) :
        item \in {h \in RawHits("video") :
                     /\ Truthy(Get(Get(h, "id", EmptyDict), "videoId", ""))
                     /\ DOMAIN h.snippet \subseteq {"title"}},
        details \in DetailRecords("video")}

KidsFilters == {"any", "yes", "no"}

\* _process_results lines 162-171: a hit is formatted with its detail record
\* and handed to _should_include_video
Call__should_include_video ==
    \E item \in {h \in RawHits("video") : ~format_video_info_raises(h)},
       details \in DetailRecords("video"),
       kids_filter \in KidsFilters, topic_id \in {None, TopicMusic} :
        LET formatted_info == format_video_info(item, details)
            params == [kids_filter |-> kids_filter, topic_id |-> topic_id]
        IN  /\ last_op' = Outcome("_should_include_video",
                   [item |-> item, details |-> details,
                    formatted_info |-> formatted_info,
                    search_params |-> params],
                   FALSE, _should_include_video(formatted_info, params),
                   <<>>, <<>>)
            /\ UNCHANGED <<session_state, page,
                           api_key, youtube, environ, search_params, pc,
                           outcome, results, type_idx, cat_idx,
                           all_formatted_results, type_params, raw_results,
                           formatted_results, item_idx, calls>>

\* the lists filter_by_kids_content is called with
ResultLists ==
    {<<>>} \cup {<<a>> : a \in FormattedVideos} \cup
    {<<a, b>> : a \in FormattedVideos, b \in FormattedVideos}

Call_filter_by_kids_content ==
    \E result_list \in ResultLists,
       made_for_kids \in {PyNone, PyBool(TRUE), PyBool(FALSE)} :
        /\ last_op' = Outcome("filter_by_kids_content",
               [results |-> result_list, made_for_kids |-> made_for_kids],
               FALSE, filter_by_kids_content(result_list, made_for_kids),
               <<>>, <<>>)
        /\ UNCHANGED <<session_state, page,
                       api_key, youtube, environ, search_params, pc,
                       outcome, results, type_idx, cat_idx,
                       all_formatted_results, type_params, raw_results,
                       formatted_results, item_idx, calls>>

FormatterInit ==
    /\ api_key = None
    /\ youtube = None
    /\ environ = None
    /\ last_op = NoOp
    /\ search_params = EmptyDict
    /\ pc = "idle"
    /\ outcome = "none"
    /\ results = EmptyResults
    /\ type_idx = 1
    /\ cat_idx = 1
    /\ all_formatted_results = <<>>
    /\ type_params = EmptyDict
    /\ raw_results = <<>>
    /\ formatted_results = <<>>
    /\ item_idx = 1
    /\ calls = <<>>
    /\ session_state = EmptyDict
    /\ page = NoPage

FormatterNext ==
    \/ Call_format_video_info
    \/ Call_format_channel_info
    \/ Call_format_playlist_info
    \/ Call__parse_duration
    \/ Call_format_count
    \/ Call__should_include_video
    \/ Call_filter_by_kids_content

FormatterSpec == FormatterInit /\ [][FormatterNext]_vars

---------------------------------------------------------------------------
(* app.main, run once per rerun of one Streamlit session.  Each action is
   one run of main from its first line to its return on the widget values
   of that run.  search is the operation Spec describes; here it is the
   results it returns, or an exception leaving the with block of
   lines 64-67 *)

\* dict[k] = v
Put(d, k, v) == [x \in DOMAIN d \cup {k} |-> IF x = k THEN v ELSE d[x]]

\* what the user types in the setup form
UserKeys == {"", "short-key", "exactly-10", "AIzaSyD-long-key"}

\* len() of those strings
len(s) ==
    CASE s = "" -> 0
      [] s = "short-key" -> 9
      [] s = "exactly-10" -> 10
      [] s = "AIzaSyD-long-key" -> 16

\* the search_params render_search_sidebar returns
Queries == {"", "cats", "dogs"}

SidebarParams ==
    [query : Queries,
     content_types : {<<>>, <<"video">>, <<"channel">>},
     search_clicked : BOOLEAN]

\* the results search returns to main
SearchReturns(params) ==
    {EmptyResults} \cup
    {[EmptyResults EXCEPT !.videos =
         IF "video" \in Range(params.content_types)
         THEN <<format_video_info(VideoHits.v1, VideoDetails.v1)>>
         ELSE <<>>,
      !.channels =
         IF "channel" \in Range(params.content_types)
         THEN <<format_channel_info(ChannelHits.ch1, ChannelDetails.ch1)>>
         ELSE <<>>]}

\* lines 25-28: the client of the session's search service, constructed
\* with Config.YOUTUBE_API_KEY on the first run of the session
ServiceOf(build_ok) ==
    IF "search_service" \in DOMAIN session_state
    THEN [api_key |-> api_key, youtube |-> youtube]
    ELSE [api_key |-> InitKey(environ),
          youtube |-> IF InitResult(environ, build_ok)
                      THEN build(InitKey(environ)) ELSE None]

\* session_state after lines 25-26
WithService == Put(session_state, "search_service", "YouTubeSearchService")

\* UIComponents.render_api_key_setup (components.py lines 34-84): a valid
\* key is stored in the session and st.rerun() ends the run (lines 66-80);
\* otherwise the function returns on line 84
render_api_key_setup(state, user_api_key, save_clicked) ==
    LET saved == /\ save_clicked
                 /\ Truthy(user_api_key)
                 /\ len(user_api_key) > 10
    IN  [session_state |-> IF saved
                           THEN Put(state, "youtube_api_key", user_api_key)
                           ELSE state,
         rerun |-> saved,
         returned |-> FALSE]

\* lines 31-38: the service is not ready and main renders the setup form
Main_Setup ==
    \E build_ok \in BOOLEAN, rebuild_ok \in BOOLEAN,
       user_api_key \in UserKeys, save_clicked \in BOOLEAN,
       written \in BOOLEAN :
        LET service == ServiceOf(build_ok)
            setup == render_api_key_setup(WithService, user_api_key,
                                          save_clicked)
            key == Get(setup.session_state, "youtube_api_key", None)
            \* lines 32-36
            called == ~setup.rerun /\ setup.returned /\ Truthy(key)
        IN  /\ service.youtube = None
            \* the run st.rerun() starts has no button pressed
            /\ page.rerun => ~save_clicked
            \* config.py is written on lines 74-75 and a later
            \* _get_api_key may find the key in it
            /\ written => setup.rerun
            /\ environ' = IF written THEN user_api_key ELSE environ
            /\ session_state' = setup.session_state
            /\ api_key' = IF called THEN InitKey(key) ELSE service.api_key
            /\ youtube' = IF called /\ InitResult(key, rebuild_ok)
                          THEN build(InitKey(key)) ELSE service.youtube
            /\ last_op' = IF called
                          THEN Outcome("set_api_key",
                                   [credential |-> key,
                                    built |-> InitResult(key, rebuild_ok)],
                                   FALSE, InitResult(key, rebuild_ok),
                                   <<>>, <<>>)
                          ELSE last_op
            /\ page' = [view |-> "setup",
                        inputs |-> [user_api_key |-> user_api_key,
                                    save_clicked |-> save_clicked],
                        search |-> NoSearch, shown |-> PyNone,
                        rerun |-> setup.rerun]
            /\ UNCHANGED <<search_params, pc, outcome, results, type_idx,
                           cat_idx, all_formatted_results, type_params,
                           raw_results, formatted_results, item_idx, calls>>

\* a run of main with a ready service that leaves the client and the
\* stored pair as they are and renders view
Renders(build_ok, params, view, shown) ==
    /\ ServiceOf(build_ok).youtube # None
    /\ api_key' = ServiceOf(build_ok).api_key
    /\ youtube' = ServiceOf(build_ok).youtube
    /\ session_state' = WithService
    /\ page' = [view |-> view, inputs |-> params, search |-> NoSearch,
                shown |-> shown, rerun |-> FALSE]
    /\ UNCHANGED <<environ, last_op, search_params, pc, outcome, results,
                   type_idx, cat_idx, all_formatted_results, type_params,
                   raw_results, formatted_results, item_idx, calls>>

\* lines 44-47: no query
Main_NoQuery ==
    \E build_ok \in BOOLEAN, params \in SidebarParams :
        /\ ~Truthy(params.query)
        /\ Renders(build_ok, params, "examples", PyNone)

\* lines 49-51: no content type
Main_NoContentTypes ==
    \E build_ok \in BOOLEAN, params \in SidebarParams :
        /\ Truthy(params.query)
        /\ params.content_types = <<>>
        /\ Renders(build_ok, params, "no_content_types", PyNone)

\* lines 53-60: the Search button was not clicked
Main_NotClicked ==
    \E build_ok \in BOOLEAN, params \in SidebarParams :
        /\ Truthy(params.query)
        /\ params.content_types # <<>>
        /\ ~params.search_clicked
        /\ IF /\ "last_search_results" \in DOMAIN session_state
              /\ "last_search_params" \in DOMAIN session_state
           THEN Renders(build_ok, params, "previous",
                        [results |-> session_state.last_search_results,
                         params |-> session_state.last_search_params])
           ELSE Renders(build_ok, params, "hint", PyNone)

\* a run that stores search_params before it calls search
Main_Search_StoresParamsFirst ==
    \E build_ok \in BOOLEAN, params \in SidebarParams,
       raises \in {"no", "search", "display"} :
        \E returned \in SearchReturns(params) :
            /\ Truthy(params.query)
            /\ params.content_types # <<>>
            /\ params.search_clicked
            /\ ServiceOf(build_ok).youtube # None
            /\ api_key' = ServiceOf(build_ok).api_key
            /\ youtube' = ServiceOf(build_ok).youtube
            /\ session_state' =
                   IF raises = "search"
                   THEN Put(WithService, "last_search_params", params)
                   ELSE Put(Put(WithService, "last_search_results", returned),
                            "last_search_params", params)
            /\ page' = [view |-> IF raises = "no" THEN "results" ELSE "error",
                        inputs |-> params,
                        search |-> IF raises = "search"
                                   THEN [outcome |-> "raised"]
                                   ELSE [outcome |-> "returned",
                                         results |-> returned],
                        shown |-> IF raises = "no"
                                  THEN [results |-> returned,
                                        params |-> params]
                                  ELSE PyNone,
                        rerun |-> FALSE]
            /\ UNCHANGED <<environ, last_op, search_params, pc, outcome,
                           results, type_idx, cat_idx, all_formatted_results,
                           type_params, raw_results, formatted_results,
                           item_idx, calls>>

\* lines 62-77: the Search button was clicked.  raises says where the try
\* block is left: nowhere, inside the with block of lines 64-67 (search
\* included) or in display_results on line 74
Main_Search ==
    \E build_ok \in BOOLEAN, params \in SidebarParams,
       raises \in {"no", "search", "display"} :
        \E returned \in SearchReturns(params) :
            /\ Truthy(params.query)
            /\ params.content_types # <<>>
            /\ params.search_clicked
            /\ ServiceOf(build_ok).youtube # None
            /\ api_key' = ServiceOf(build_ok).api_key
            /\ youtube' = ServiceOf(build_ok).youtube
            /\ session_state' =
                   IF raises = "search"
                   THEN WithService
                   ELSE Put(Put(WithService, "last_search_results", returned),
                            "last_search_params", params)
            /\ page' = [view |-> IF raises = "no" THEN "results" ELSE "error",
                        inputs |-> params,
                        search |-> IF raises = "search"
                                   THEN [outcome |-> "raised"]
                                   ELSE [outcome |-> "returned",
                                         results |-> returned],
                        shown |-> IF raises = "no"
                                  THEN [results |-> returned,
                                        params |-> params]
                                  ELSE PyNone,
                        rerun |-> FALSE]
            /\ UNCHANGED <<environ, last_op, search_params, pc, outcome,
                           results, type_idx, cat_idx, all_formatted_results,
                           type_params, raw_results, formatted_results,
                           item_idx, calls>>

\* a browser session before the first run of main
AppInit ==
    /\ environ \in {None, EnvKey}
    /\ api_key = None
    /\ youtube = None
    /\ session_state = EmptyDict
    /\ page = NoPage
    /\ last_op = NoOp
    /\ search_params = EmptyDict
    /\ pc = "idle"
    /\ outcome = "none"
    /\ results = EmptyResults
    /\ type_idx = 1
    /\ cat_idx = 1
    /\ all_formatted_results = <<>>
    /\ type_params = EmptyDict
    /\ raw_results = <<>>
    /\ formatted_results = <<>>
    /\ item_idx = 1
    /\ calls = <<>>

AppNext ==
    \/ Main_Setup
    \/ Main_NoQuery
    \/ Main_NoContentTypes
    \/ Main_NotClicked
    \/ Main_Search

\* Streamlit runs main again after st.rerun() and after every interaction
\* with a widget: a session whose page is open keeps running main
AppSpec == AppInit /\ [][AppNext]_vars /\ WF_vars(AppNext)

---------------------------------------------------------------------------
(* Properties *)

\* a category loop has just ended: all_formatted_results is the merged
\* stream of the content type before type_idx and results holds its list
JustDeduplicated ==
    /\ pc \in {"fanout", "done"}
    /\ MultiCategory
    /\ type_idx > 1
    /\ cat_idx = 1

deduped == results[ResultKey(content_types[type_idx - 1])]

\* C1: search called while the client is not ready raises to the caller and
\* issues no remote call at all
C1_ReadinessGate ==
    ~is_ready =>
        /\ calls = <<>>
        /\ pc \in {"idle", "done"}
        /\ outcome # "returned"
        /\ pc = "done" => outcome = "raised"

C1_Witness ==
    ~is_ready /\ pc = "done" /\ outcome = "raised" /\ calls = <<>>

\* C2: with a category list, the merged results are deduplicated by entity
\* id: no id occurs twice, each kept entry is the first occurrence of its id
\* (with that occurrence's metadata), and below the cap nothing but a repeated
\* id is dropped
C2_DedupByEntityId ==
    JustDeduplicated =>
        /\ \A i, j \in 1..Len(deduped) :
              i # j => deduped[i].id # deduped[j].id
        /\ \A i \in 1..Len(deduped) :
              \E j \in 1..Len(all_formatted_results) :
                  /\ all_formatted_results[j] = deduped[i]
                  /\ \A k \in 1..(j - 1) :
                        all_formatted_results[k].id # deduped[i].id
        /\ Len(deduped) < search_params.max_results =>
              \A j \in 1..Len(all_formatted_results) :
                  \E i \in 1..Len(deduped) :
                      deduped[i].id = all_formatted_results[j].id

RECURSIVE DedupById(_, _)
DedupById(seq, seen) ==
    IF seq = <<>> THEN <<>>
    ELSE IF Head(seq).id \in seen THEN DedupById(Tail(seq), seen)
    ELSE <<Head(seq)>> \o DedupById(Tail(seq), seen \cup {Head(seq).id})

\* C3: with a category list, the list of a content type is the first
\* max_results entries of the merged stream deduplicated by entity id, so its
\* length is min(max_results, number of distinct entity ids)
C3_CapOnUniqueStream ==
    JustDeduplicated =>
        /\ deduped = Take(DedupById(all_formatted_results, {}),
                          search_params.max_results)
        /\ Len(deduped) =
               Min(search_params.max_results,
                   Cardinality({r.id : r \in Range(all_formatted_results)}))


(* What the log of remote calls says the caller must get *)

\* the positions in calls of the search_content calls for content type ct
\* that returned, in order
ReturnedSearches(ct) ==
    SelectSeq([i \in 1..Len(calls) |-> i],
              LAMBDA i : /\ calls[i].op = "search_content"
                         /\ calls[i].content_type = ct
                         /\ calls[i].ok)

FailedSearches(ct) ==
    {i \in 1..Len(calls) : /\ calls[i].op = "search_content"
                           /\ calls[i].content_type = ct
                           /\ ~calls[i].ok}

\* the formatted results of the search_content call at position i, from its
\* items and the detail lookups that followed it
ProcessedOf(i) ==
    LET ct == calls[i].content_type
        raw == ItemsOf(ct, calls[i].returned)
        RecordsOf(d) == [k \in 1..Len(d.returned) |->
                            DetailStore(ct)[d.returned[k]]]
    IN  IF raw = <<>> THEN <<>>
        ELSE IF ct = "video"
        THEN FormatVideos(raw,
                 IF calls[i + 1].ok
                 THEN VideoDetailsDict(RecordsOf(calls[i + 1]))
                 ELSE EmptyDict,
                 search_params)
        ELSE Concat([k \in 1..Len(raw) |->
                 IF calls[i + k].ok
                 THEN <<FormatItem(ct, raw[k],
                          IF calls[i + k].returned # <<>>
                          THEN RecordsOf(calls[i + k])[1] ELSE EmptyDict)>>
                 ELSE <<>>])

\* the list of content type ct made of the calls that returned alone
ListOfReturned(ct) ==
    LET idx == ReturnedSearches(ct)
    IN  IF MultiCategory
        THEN unique_results(Concat([k \in 1..Len(idx) |-> ProcessedOf(idx[k])]),
                            search_params.max_results)
        ELSE IF idx # <<>> THEN ProcessedOf(idx[1]) ELSE <<>>

StepWithoutAnswer ==
    \/ Search_Begin
    \/ SearchContent_Raises
    \/ ProcessVideos_NoIds
    \/ GetVideoDetails_Raises
    \/ ItemDetails_Raises
    \/ ProcessItems_Done
    \/ Deduplicate
    \/ Search_Return

\* C5: on a ready client search never raises, whatever remote calls fail, and
\* can always go on until it returns; a content type whose search calls all
\* failed has an empty list
C5_NeverRaises ==
    is_ready =>
        /\ outcome # "raised"
        /\ pc = "done" \/ ENABLED StepWithoutAnswer
        /\ pc = "done" =>
              /\ outcome = "returned"
              /\ \A ct \in Range(content_types) :
                    ReturnedSearches(ct) = <<>> =>
                        results[ResultKey(ct)] = <<>>

\* every remote call of a two-type request failed, and search returned
C5_Witness ==
    /\ is_ready
    /\ pc = "done"
    /\ outcome = "returned"
    /\ Len(content_types) > 1
    /\ \A ct \in Range(content_types) :
          FailedSearches(ct) # {} /\ ReturnedSearches(ct) = <<>>
    /\ results = EmptyResults


\* the positions in calls of the calls of operation op for content type ct
CallsOf(op, ct) ==
    SelectSeq([i \in 1..Len(calls) |-> i],
              LAMBDA i : calls[i].op = op /\ calls[i].content_type = ct)

\* the category argument of each search_content call for ct, in order
CategoriesSearched(ct) ==
    [k \in 1..Len(CallsOf("search_content", ct)) |->
        calls[CallsOf("search_content", ct)[k]].category]

\* the number of search_content calls search makes for one content type
FanOutPerType ==
    IF MultiCategory THEN Len(category_ids.v) ELSE 1

C7_VideoFanOut ==
    (is_ready /\ pc = "done" /\ "video" \in Range(content_types)) =>
        CategoriesSearched("video") =
            IF MultiCategory
            THEN [k \in 1..Len(category_ids.v) |-> PyStr(category_ids.v[k])]
            ELSE <<PyNone>>

\* C8: for channel and playlist a supplied category list is ignored: search
\* makes one search_content call for the content type, without a category
\* filter
C8_CategoryIgnoredForChannelPlaylist ==
    (is_ready /\ pc = "done" /\ MultiCategory) =>
        \A ct \in Range(content_types) \ {"video"} :
            CategoriesSearched(ct) = <<PyNone>>

\* C9: a channel or playlist hit whose detail lookup raised is still in the
\* result list, formatted without detail fields, and the hits after it are
\* processed: every hit handled so far has its entry
C9_DetailFailureKeepsHit ==
    (pc = "process" /\ content_type # "video") =>
        \A k \in 1..(item_idx - 1) :
            LET lookup == calls[Len(calls) - (item_idx - 1) + k]
            IN  \E j \in 1..Len(formatted_results) :
                    /\ formatted_results[j].id =
                           ItemId(content_type, raw_results[k])
                    /\ ~lookup.ok =>
                           formatted_results[j] =
                               FormatItem(content_type, raw_results[k],
                                          EmptyDict)

\* every hit of the search_content call at position i, formatted, before
\* the post-filter; topic_ids is the relevantTopicIds of the detail record
\* the lookup returned for the hit (empty without one)
FormattedOf(i) ==
    LET raw == ItemsOf("video", calls[i].returned)
        dict == IF raw # <<>> /\ calls[i + 1].ok
                THEN VideoDetailsDict(DetailAnswer("video", calls[i + 1].ids))
                ELSE EmptyDict
    IN  [k \in 1..Len(raw) |->
            [format_video_info(raw[k], LookupDetails(dict, raw[k]))
                EXCEPT !.topic_ids =
                    Get(Get(LookupDetails(dict, raw[k]), "topicDetails",
                            EmptyDict), "relevantTopicIds", <<>>)]]

IdsOf(seq) == [k \in 1..Len(seq) |-> seq[k].id]

\* C10: (kids_filter any, no category list) the videos search returns are
\* those of the answer whose topic-id list has topic_id as a member, all of
\* them when topic_id is unset; a video with an empty topic-id list is dropped
\* when topic_id is set
C10_TopicFilter ==
    (/\ is_ready
     /\ pc = "done"
     /\ ~MultiCategory
     /\ search_params.kids_filter = "any"
     /\ ReturnedSearches("video") # <<>>) =>
        IdsOf(results.videos) =
            IdsOf(filter_by_topic(FormattedOf(ReturnedSearches("video")[1]),
                                  search_params.topic_id))


---------------------------------------------------------------------------
(* The kids post-filter *)

\* the formatted result of video hit id, given the answer of the batched
\* lookup that followed its search call (position i of calls)
FormattedVideoAt(i, id) ==
    format_video_info(VideoHits[id],
        IF i + 1 <= Len(calls) /\ calls[i + 1].op = "get_video_details"
           /\ calls[i + 1].ok /\ id \in Range(calls[i + 1].returned)
        THEN VideoDetails[id] ELSE EmptyDict)

\* the kids policy as stated: any passes all, a result without the flag
\* passes, otherwise the flag must equal (kids_filter = yes)
KidsPolicyPasses(formatted_info, kids_filter) ==
    \/ kids_filter = "any"
    \/ "made_for_kids" \notin DOMAIN formatted_info
    \/ formatted_info.made_for_kids = (kids_filter = "yes")

\* the one search_content call for videos of a request without category list
VideoSearchCall == ReturnedSearches("video")[1]

\* C11: the kids post-filter passes every video when kids_filter is any,
\* every video whose formatted result has no made_for_kids field, and
\* otherwise a video iff its flag equals (kids_filter = yes); the videos
\* search returns are exactly the hits that pass, in the order of the hits
C11_KidsFilter ==
    (/\ pc = "done" /\ outcome = "returned" /\ ~MultiCategory
     /\ ReturnedSearches("video") # <<>>) =>
        IdsOf(results.videos) =
            SelectSeq(calls[VideoSearchCall].returned,
                      LAMBDA id : KidsPolicyPasses(
                          FormattedVideoAt(VideoSearchCall, id),
                          search_params.kids_filter))

\* kids_filter is yes, a video flagged not-for-kids was dropped and a video
\* without the flag (no detail record) was kept
C11_Witness ==
    /\ pc = "done" /\ outcome = "returned" /\ ~MultiCategory
    /\ search_params.kids_filter = "yes"
    /\ ReturnedSearches("video") # <<>>
    /\ calls[VideoSearchCall].returned = <<"v2", "v3">>
    /\ calls[VideoSearchCall + 1].ok
    /\ IdsOf(results.videos) = <<"v3">>


---------------------------------------------------------------------------
(* YouTubeAPIClient *)

\* C12: after set_api_key(credential) returns, is_ready() is true iff the
\* credential is non-empty and the service was constructed, whatever the
\* readiness was before; set_api_key raises nothing
C12_ReadyIffConfigured ==
    last_op.op = "set_api_key" =>
        /\ ~last_op.raised
        /\ is_ready <=> (/\ Truthy(last_op.args.credential)
                         /\ last_op.args.built)

ClientOps ==
    {"search_content", "get_video_details", "get_channel_details",
     "get_playlist_details"}

\* C16: search_content, get_video_details, get_channel_details and
\* get_playlist_details called while is_ready() is false raise an error and
\* issue no remote call
C16_NotReadyFails ==
    (last_op.op \in ClientOps /\ ~is_ready) =>
        /\ last_op.raised
        /\ last_op.remote = <<>>

\* a detail lookup of two ids was called on a client that is not ready
C16_Witness ==
    /\ ~is_ready
    /\ last_op.op = "get_playlist_details"
    /\ last_op.raised
    /\ last_op.args = PyList(<<"pl1", "pl2">>)

\* C17: a detail lookup called on a ready client with an empty ID list
\* returns an empty sequence and issues no remote call
C17_EmptyIdList ==
    (/\ last_op.op \in ClientOps \ {"search_content"}
     /\ is_ready
     /\ last_op.args = PyList(<<>>)) =>
        /\ ~last_op.raised
        /\ last_op.returned = <<>>
        /\ last_op.remote = <<>>

\* a filter of a request is unset: the key is missing, or holds None or an
\* empty value
Unset(params, k) ==
    \/ k \notin DOMAIN params
    \/ params[k] \in {PyNone, PyStr(""), PyList(<<>>)}

\* C13: the search.list request search_content issues carries no optional
\* filter that is unset in the request it was given, neither as a null nor
\* as an empty value
C13_UnsetFiltersOmitted ==
    (last_op.op = "search_content" /\ last_op.remote # <<>>) =>
        \A k \in DOMAIN OptionalFilters :
            Unset(last_op.args, k) =>
                OptionalFilters[k] \notin DOMAIN last_op.remote[1].args

---------------------------------------------------------------------------
(* No retry *)

SearchCallsAt == {i \in 1..Len(calls) : calls[i].op = "search_content"}

DetailCallsAt == {i \in 1..Len(calls) : calls[i].op # "search_content"}

\* C14: within one search, the search_content call of a (content type,
\* category) unit is issued at most once, failed or not, and a detail lookup
\* that failed is not issued again for the same answer
C14_NoRetry ==
    /\ \A i, j \in SearchCallsAt :
          (/\ calls[i].content_type = calls[j].content_type
           /\ calls[i].category = calls[j].category) => i = j
    /\ \A i, j \in DetailCallsAt :
          (/\ i < j
           /\ ~calls[i].ok
           /\ calls[i].op = calls[j].op
           /\ calls[i].ids = calls[j].ids) =>
              \E k \in SearchCallsAt : i < k /\ k < j

\* search returned after a search_content call and a detail lookup failed
\* and other calls followed each of them
C14_Witness ==
    /\ pc = "done"
    /\ outcome = "returned"
    /\ \E i \in SearchCallsAt : ~calls[i].ok /\ i < Len(calls)
    /\ \E i \in DetailCallsAt : ~calls[i].ok /\ i < Len(calls)

---------------------------------------------------------------------------
(* Unrequested content types *)

Unrequested == ContentTypes \ Range(content_types)

\* C15: in the result set search returns, the list of every content type
\* that is not in content_types is empty, and no remote call is issued for
\* such a content type
C15_UnrequestedTypesEmpty ==
    is_ready =>
        /\ \A i \in 1..Len(calls) : calls[i].content_type \notin Unrequested
        /\ (pc = "done" /\ outcome = "returned") =>
              \A ct \in Unrequested : results[ResultKey(ct)] = <<>>

\* search returned results of a requested content type while another
\* content type was not requested
C15_Witness ==
    /\ pc = "done"
    /\ outcome = "returned"
    /\ Unrequested # {}
    /\ \E ct \in Range(content_types) : results[ResultKey(ct)] # <<>>

---------------------------------------------------------------------------
(* YouTubeDataFormatter *)

Formatters ==
    {"format_video_info", "format_channel_info", "format_playlist_info"}

\* the fields a formatter adds from the detail record alone
DetailOnlyFields(op) ==
    IF op = "format_video_info"
    THEN {"duration", "duration_readable", "view_count", "like_count",
          "comment_count", "made_for_kids", "privacy_status"}
    ELSE IF op = "format_channel_info"
    THEN {"subscriber_count", "video_count", "view_count", "keywords"}
    ELSE {"item_count", "privacy_status"}

\* C18: the three formatters never raise for a raw hit made of an id block
\* and a snippet block with any subset of their sub-fields (a categoryId
\* among them), with or without a detail record; a missing sub-field yields
\* its default and without a detail record the detail-only fields are absent
C18_FormattersNeverRaise ==
    last_op.op \in Formatters =>
        /\ ~last_op.raised
        /\ LET info == last_op.result
               snippet == Get(last_op.args.item, "snippet", EmptyDict)
           IN  /\ "title" \notin DOMAIN snippet => info.title = "No title"
               /\ "description" \notin DOMAIN snippet =>
                      info.description = "No description"
               /\ "id" \notin DOMAIN last_op.args.item =>
                      info.id = "" /\ info.url = ""
               /\ ~HasDetails(last_op.args.details) =>
                      DetailOnlyFields(last_op.op) \cap DOMAIN info = {}

\* C19: format_video_info takes the category of a video from the search
\* snippet's categoryId when there is one, else from the detail record's
\* snippet.categoryId, and the result carries that category_id with the
\* category name it maps to
C19_CategoryResolution ==
    LET search_category_id ==
            Get(Get(last_op.args.item, "snippet", EmptyDict),
                "categoryId", "")
        detail_category_id ==
            Get(Get(last_op.args.details, "snippet", EmptyDict),
                "categoryId", "")
        resolved == IF Truthy(search_category_id) THEN search_category_id
                    ELSE detail_category_id
    IN  (last_op.op = "format_video_info" /\ Truthy(resolved)) =>
            /\ ~last_op.raised
            /\ last_op.result.category_id = resolved
            /\ last_op.result.category_name = _get_category_name(resolved)

\* a number below 100 as two digits
TwoDigits(n) == DigitChars[(n \div 10) + 1] \o DigitChars[(n % 10) + 1]

\* what a token of the given components is to be rendered as
Rendered(parts) ==
    LET Value(unit) == IF parts[unit] = PyNone THEN 0 ELSE parts[unit].v
    IN  IF Value("H") = 0
        THEN TwoDigits(Value("M")) \o ":" \o TwoDigits(Value("S"))
        ELSE TwoDigits(Value("H")) \o ":" \o TwoDigits(Value("M")) \o ":"
                 \o TwoDigits(Value("S"))

\* C20: _parse_duration maps a token PT#H#M#S with any subset of the
\* components to MM:SS when the hours are zero and to HH:MM:SS otherwise,
\* each component on two digits at least and an absent one counting as 0;
\* an empty or absent token maps to Unknown
C20_ParseDuration ==
    last_op.op = "_parse_duration" =>
        IF last_op.args.parts = PyNone
        THEN last_op.result = "Unknown"
        ELSE last_op.result = Rendered(last_op.args.parts)

\* PT1H13S, a token without minutes, was rendered with its hours
C20_Witness ==
    /\ last_op.op = "_parse_duration"
    /\ last_op.args.duration_string = PyStr(<<"P", "T", "1", "H", "1", "3", "S">>)
    /\ last_op.result = "01:00:13"

---------------------------------------------------------------------------
(* id and url of a formatted result *)

\* the content type a formatter is for
KindOf(op) ==
    IF op = "format_video_info" THEN "video"
    ELSE IF op = "format_channel_info" THEN "channel" ELSE "playlist"

\* the fixed URL prefix of each kind
UrlPrefix(type) ==
    IF type = "video" THEN "https://www.youtube.com/watch?v="
    ELSE IF type = "channel" THEN "https://www.youtube.com/channel/"
    ELSE "https://www.youtube.com/playlist?list="

\* C21: every formatted result has the id of its raw hit's kind-specific
\* identifier whenever the hit carries one, and its url is the kind's fixed
\* prefix followed by id when id is non-empty, the empty string exactly when
\* id is empty
C21_IdAndUrl ==
    (last_op.op \in Formatters /\ ~last_op.raised) =>
        LET info == last_op.result
            id_block == Get(last_op.args.item, "id", EmptyDict)
            key == IdKey(KindOf(last_op.op))
        IN  /\ info.type = KindOf(last_op.op)
            /\ key \in DOMAIN id_block => info.id = id_block[key]
            /\ info.id # "" => info.url = UrlPrefix(info.type) \o info.id
            /\ info.id = "" <=> info.url = ""

\* a channel hit that carries its channelId was formatted
C21_Witness ==
    /\ last_op.op = "format_channel_info"
    /\ ~last_op.raised
    /\ Get(last_op.args.item, "id", EmptyDict) = [channelId |-> "ch1"]
    /\ last_op.result.url = "https://www.youtube.com/channel/ch1"

---------------------------------------------------------------------------
(* format_count *)

\* the unit and the suffix a count is to be rendered in, by magnitude
Scale(count) ==
    IF count >= 1000000000 THEN [unit |-> 1000000000, suffix |-> "B"]
    ELSE IF count >= 1000000 THEN [unit |-> 1000000, suffix |-> "M"]
    ELSE [unit |-> 1000, suffix |-> "K"]

\* the texts with one decimal digit and the suffix that are count in the
\* unit, to within one tenth
Renderings(count, scale) ==
    LET below == count \div (scale.unit \div 10)
    IN  {OneDecimal(t, scale.suffix) : t \in {below, below + 1}}

\* C22: for every non-negative count format_count renders counts of at
\* least 10^9 in billions with suffix B, of at least 10^6 in millions with
\* suffix M, of at least 10^3 in thousands with suffix K, each with one
\* decimal digit, and counts below 10^3 as the plain integer
C22_FormatCount ==
    last_op.op = "format_count" =>
        LET count == last_op.args.v
        IN  IF count < 1000 THEN last_op.result = ToString(count)
            ELSE last_op.result \in Renderings(count, Scale(count))

\* the count 1000, the lowest one in thousands, was rendered as 1.0K
C22_Witness ==
    /\ last_op.op = "format_count"
    /\ last_op.args = PyInt(1000)
    /\ last_op.result = "1.0K"

---------------------------------------------------------------------------
(* Credential and service *)

\* C25: after construction and any set_api_key calls, whenever is_ready()
\* is true the service was built with the client's current api_key (a
\* set_api_key call whose construction fails leaves both as they were)
C25_ServiceOfCurrentKey ==
    is_ready => youtube = build(api_key)

---------------------------------------------------------------------------
(* A failed batched lookup *)

\* the positions in calls of the batched video lookups that failed
FailedVideoLookups ==
    {i \in 1..Len(calls) :
        calls[i].op = "get_video_details" /\ ~calls[i].ok}

\* C26: when the batched get_video_details call of a fan-out raises, search
\* still returns, and every raw video hit of that fan-out is among the
\* returned videos, formatted without the detail fields (no duration,
\* counts or made_for_kids), unless the list is full (max_results)
C26_LookupFailureKeepsVideos ==
    (is_ready /\ pc = "done") =>
        /\ outcome = "returned"
        /\ \A i \in FailedVideoLookups :
              \/ Len(results.videos) >= search_params.max_results
              \/ \A id \in Range(calls[i].ids) :
                    \E k \in 1..Len(results.videos) :
                        /\ results.videos[k].id = id
                        /\ (\A j \in 1..(i - 1) :
                               calls[j].op # "get_video_details") =>
                              DOMAIN results.videos[k] \cap
                                  DetailOnlyFields("format_video_info") = {}

---------------------------------------------------------------------------
(* The caller's search_params *)

\* C30: search never modifies the caller's search_params mapping: no step
\* of search changes it (its category_id list included, and no content_type
\* key is added), whatever content types and categories it fans out to
C30_ParamsNotModified ==
    [][search_params' = search_params]_vars

\* search returned after a fan-out over a category list: the params handed
\* to search_content carry a content_type and one category, the caller's
\* mapping has no content_type key and still holds the list
C30_Witness ==
    /\ pc = "done"
    /\ outcome = "returned"
    /\ MultiCategory
    /\ Len(category_ids.v) = 2
    /\ "content_type" \in DOMAIN type_params
    /\ type_params.category_id = PyStr("10")
    /\ "content_type" \notin DOMAIN search_params

---------------------------------------------------------------------------
(* made_for_kids and the kids content filters *)

\* the call of _should_include_video that was just made
IncludeCall == last_op.op = "_should_include_video"

\* C27: a detail record without status.madeForKids sets made_for_kids to
\* false, so the video is dropped under the kids filter "yes" and retained
\* under "no"; the field is absent exactly when no detail record was supplied
C27_MadeForKidsDefault ==
    IncludeCall =>
        LET details == last_op.args.details
            info == last_op.args.formatted_info
            kids_filter == last_op.args.search_params.kids_filter
        IN  /\ ("made_for_kids" \notin DOMAIN info) <=> ~HasDetails(details)
            /\ (/\ HasDetails(details)
                /\ "madeForKids" \notin
                       DOMAIN Get(details, "status", EmptyDict)) =>
                  /\ info.made_for_kids = FALSE
                  /\ kids_filter = "yes" => ~last_op.result
                  /\ kids_filter = "no" => last_op.result

\* a video whose detail record has no status block met the filter "yes"
C27_Witness ==
    /\ IncludeCall
    /\ HasDetails(last_op.args.details)
    /\ "status" \notin DOMAIN last_op.args.details
    /\ last_op.args.search_params.kids_filter = "yes"
    /\ last_op.args.search_params.topic_id = TopicMusic
    /\ ~last_op.result

\* the kids filter value the post-filter reads for a made_for_kids argument
KidsFilterOf(made_for_kids) == IF made_for_kids.v THEN "yes" ELSE "no"

\* C29: filter_by_kids_content(results, True / False) keeps exactly the
\* results _should_include_video keeps under the kids filter "yes" / "no",
\* results without a made_for_kids field included
C29_KidsFiltersAgree ==
    (last_op.op = "filter_by_kids_content"
        /\ last_op.args.made_for_kids # PyNone) =>
        last_op.result =
            SelectSeq(last_op.args.results,
                LAMBDA result :
                    KidsFilterPasses(result,
                        [kids_filter |->
                            KidsFilterOf(last_op.args.made_for_kids)]))

---------------------------------------------------------------------------
(* set_api_key and concurrent operations *)

\* the api_key and service of the client as a pair
ClientPair(c) == <<c.api_key, c.youtube>>

\* C23: an operation running concurrently with set_api_key never observes a
\* half-reconfigured client: when the call has returned, every client seen
\* since it began is the client before the call or the client after it,
\* service and api_key alike
C23_NoHalfReconfigured ==
    (pc = "idle" /\ last_op.op = "set_api_key") =>
        \A i \in 1..Len(calls) :
            /\ calls[i].youtube \in {last_op.args.before.youtube, youtube}
            /\ ClientPair(calls[i]) \in
                   {ClientPair(last_op.args.before),
                    <<api_key, youtube>>}

---------------------------------------------------------------------------
(* The app flow *)

\* a key saved from the setup form is in the session and the session's
\* service is not ready
KeySaved ==
    /\ "youtube_api_key" \in DOMAIN session_state
    /\ ~is_ready

\* set_api_key was called with the key saved in the session
KeyApplied ==
    /\ "youtube_api_key" \in DOMAIN session_state
    /\ last_op.op = "set_api_key"
    /\ last_op.args.credential = session_state.youtube_api_key

\* C24: from a session whose service is not ready, once the user has saved
\* an API key longer than 10 characters in the setup form, set_api_key is
\* eventually called with that key in the same session
C24_SavedKeyIsApplied ==
    KeySaved ~> KeyApplied

PairKeys == {"last_search_results", "last_search_params"}

\* the stored pair of a session_state, None when there is none
Stored(state) ==
    IF PairKeys \subseteq DOMAIN state
    THEN [results |-> state.last_search_results,
          params |-> state.last_search_params]
    ELSE PyNone

\* C28: last_search_results and last_search_params are both unset or both
\* set by the same search call; they change only in a run whose search
\* returned without raising, to the results and the params of that call; a
\* search that raises leaves both unchanged; a run that reaches line 53
\* without the Search button clicked displays exactly the stored pair, and
\* no run without a click displays anything else
C28_StoredPair ==
    [][/\ PairKeys \cap DOMAIN session_state' \in {{}, PairKeys}
       /\ Stored(session_state') # Stored(session_state) =>
             /\ page'.search.outcome = "returned"
             /\ Stored(session_state') =
                    [results |-> page'.search.results,
                     params |-> page'.inputs]
       /\ page'.search.outcome = "raised" =>
             /\ PairKeys \cap DOMAIN session_state' =
                    PairKeys \cap DOMAIN session_state
             /\ Stored(session_state') = Stored(session_state)
       /\ page'.view \in {"previous", "hint"} =>
             /\ page'.shown = Stored(session_state)
             /\ page'.view = "previous" <=> Stored(session_state) # PyNone
       /\ page'.search.outcome = "none" =>
             page'.shown \in {PyNone, Stored(session_state)}]_vars

\* a search raised in a session that holds the pair of an earlier search
\* with other params, and the pair is still that of the earlier search
C28_Witness ==
    /\ page.view = "error"
    /\ page.search.outcome = "raised"
    /\ Stored(session_state) # PyNone
    /\ Stored(session_state).params # page.inputs
    /\ Stored(session_state).results # EmptyResults

====
